---- MODULE Spec2Model ----
(***************************************************************************)
(* A model of the olojs expression evaluator (src/lib/expression.js): the  *)
(* runtime values, the Tuple class, the scope chain of context objects     *)
(* and the handlers the parsed tree calls on the context.                  *)
(*                                                                         *)
(* Numbers are integers.  A context object is a frame of the heap: its own *)
(* properties in insertion order and its prototype.  The parsed tree is a  *)
(* record [h |-> handler name, ...operands]; Eval runs it the way the      *)
(* tree returned by Parser runs the handlers of the context it is given.   *)
(***************************************************************************)
EXTENDS Integers, Sequences, FiniteSets, TLC

VARIABLES heap, last, evals

vars == <<heap, last, evals>>

(***************************************************************************)
(* Runtime values.  Every value is a record tagged by its JavaScript       *)
(* representation; the payload field has a name of its own per tag.        *)
(***************************************************************************)
Null == [js |-> "null"]
Undefined == [js |-> "undefined"]
NaN == [js |-> "NaN"]
Bool(b) == [js |-> "boolean", b |-> b]
Num(n) == [js |-> "number", n |-> n]
Ratio(x, y) == [js |-> "number", num |-> x, den |-> y]
Str(s) == [js |-> "string", s |-> s]
List(items) == [js |-> "array", elems |-> items]
Entry(k, v) == [k |-> k, v |-> v]
Obj(own, inh) == [js |-> "object", own |-> own, inh |-> inh]
TupleOf(items) == [js |-> "Tuple", items |-> items]
ContextFn(name) == [js |-> "function", fn |-> "context", name |-> name]
MetaFn(name) == [js |-> "function", fn |-> "meta", name |-> name]
HostFn(id) == [js |-> "function", fn |-> "host", id |-> id]
Closure(params, body, ctx) ==
    [js |-> "function", fn |-> "closure", params |-> params, body |-> body, ctx |-> ctx]
Mapped(f) == [js |-> "function", fn |-> "mapped", of |-> f]

\* const v = ...; the rest of the function body, which reads v
With(v, K(_)) == K(v)

\* const r = await ...; the rest of the function body, which is skipped
\* when the awaited operation throws
Await(r, K(_)) == IF r.ok THEN K(r) ELSE r

\* type (value)
Type(value) ==
    CASE value.js \in {"null", "undefined", "NaN"} -> "NOTHING"
      [] value.js = "boolean" -> "BOOLEAN"
      [] value.js = "number" -> "NUMBER"
      [] value.js = "string" -> "STRING"
      [] value.js = "function" -> "FUNCTION"
      [] value.js = "array" -> "LIST"
      [] value.js = "Tuple" -> "TUPLE"
      [] OTHER -> "NAMESPACE"

(***************************************************************************)
(* class Tuple                                                             *)
(***************************************************************************)
RECURSIVE Iterate(_)
RECURSIVE isNothing(_)

\* a one-level iterator, which yields a nested tuple as an item
IterateShallow(tuple) ==
    SelectSeq(tuple.items, LAMBDA item : item.js = "Tuple" \/ Type(item) # "NOTHING")

\* Tuple.prototype[Symbol.iterator]: the items, nested tuples flattened
Iterate(tuple) ==
    IF tuple.items = << >> THEN << >>
    ELSE LET item == Head(tuple.items)
             rest == Iterate(TupleOf(Tail(tuple.items)))
         IN  IF item.js = "Tuple" THEN Iterate(item) \o rest
             ELSE IF ~isNothing(item) THEN <<item>> \o rest
             ELSE rest

\* a normalize that forgets the one-element case
NormalizeKeepSingle(tuple) ==
    With(Iterate(tuple), LAMBDA it : IF Len(it) = 0 THEN Null ELSE tuple)

\* Tuple.prototype.normalize
Normalize(tuple) ==
    With(Iterate(tuple), LAMBDA it :
        IF Len(it) = 0 THEN Null
        ELSE IF Len(it) = 1 THEN it[1]
        ELSE tuple)

\* isNothing (value), with Tuple.prototype.isNothing
isNothing(value) ==
    \/ Type(value) = "NOTHING"
    \/ Type(value) = "TUPLE" /\ Normalize(value) = Null

\* new Tuple(...items) / Tuple.from(...items)
TupleFrom(items) == TupleOf(SelectSeq(items, LAMBDA item : ~isNothing(item)))

NOTHING == TupleOf(<< >>)

(***************************************************************************)
(* Results of the operations that can throw.                               *)
(***************************************************************************)
Ok(v) == [ok |-> TRUE, v |-> v, err |-> ""]
Raise(message) == [ok |-> FALSE, v |-> Undefined, err |-> message]

(***************************************************************************)
(* Names.  A string is read one code unit at a time.                       *)
(***************************************************************************)
CodeUnits ==
    << "$", "0", "1", "2", "3", "4", "5", "6", "7", "8", "9",
       "A", "B", "C", "D", "E", "F", "G", "H", "I", "J", "K", "L", "M",
       "N", "O", "P", "Q", "R", "S", "T", "U", "V", "W", "X", "Y", "Z", "_",
       "a", "b", "c", "d", "e", "f", "g", "h", "i", "j", "k", "l", "m",
       "n", "o", "p", "q", "r", "s", "t", "u", "v", "w", "x", "y", "z" >>
Digits == {"0", "1", "2", "3", "4", "5", "6", "7", "8", "9"}
NameStart ==
    {"A", "B", "C", "D", "E", "F", "G", "H", "I", "J", "K", "L", "M",
     "N", "O", "P", "Q", "R", "S", "T", "U", "V", "W", "X", "Y", "Z", "_",
     "a", "b", "c", "d", "e", "f", "g", "h", "i", "j", "k", "l", "m",
     "n", "o", "p", "q", "r", "s", "t", "u", "v", "w", "x", "y", "z"}

CharAt(s, i) == SubSeq(s, i, i)

\* a test that accepts every string
isAnyName(name) == TRUE

\* isValidName: /^[a-z_A-Z]+[a-z_A-Z0-9]*$/
isValidName(name) ==
    /\ Len(name) >= 1
    /\ CharAt(name, 1) \in NameStart
    /\ \A i \in 2..Len(name) : CharAt(name, i) \in NameStart \cup Digits

(***************************************************************************)
(* Plain objects: own entries in insertion order, then the inherited ones. *)
(***************************************************************************)
HasKey(entries, k) == \E i \in 1..Len(entries) : entries[i].k = k
ValueOf(entries, k) ==
    entries[CHOOSE i \in 1..Len(entries) :
                entries[i].k = k /\ \A j \in 1..(i - 1) : entries[j].k # k].v
SetEntry(entries, k, v) ==
    IF HasKey(entries, k)
    THEN [i \in 1..Len(entries) |-> IF entries[i].k = k THEN Entry(k, v) ELSE entries[i]]
    ELSE Append(entries, Entry(k, v))
Keys(entries) == [i \in 1..Len(entries) |-> entries[i].k]

\* Object.assign(target, source) on entry lists
RECURSIVE AssignEntries(_, _)
AssignEntries(target, source) ==
    IF source = << >> THEN target
    ELSE AssignEntries(SetEntry(target, Head(source).k, Head(source).v), Tail(source))

\* the functions every object inherits from Object.prototype
MetaNames ==
    {"constructor", "hasOwnProperty", "isPrototypeOf", "propertyIsEnumerable",
     "toLocaleString", "toString", "valueOf"}

\* Object.prototype[name]
ObjectPrototypeGet(name) ==
    IF name \in MetaNames THEN MetaFn(name)
    ELSE IF name = "__proto__" THEN Null
    ELSE Undefined

\* x[name] for a plain object x
ObjGet(x, name) ==
    IF HasKey(x.own, name) THEN ValueOf(x.own, name)
    ELSE IF HasKey(x.inh, name) THEN ValueOf(x.inh, name)
    ELSE IF name \in MetaNames THEN MetaFn(name)
    ELSE IF name = "__proto__"
         THEN (IF x.inh = << >> THEN Obj(<< >>, << >>) ELSE Obj(x.inh, << >>))
    ELSE Undefined

\* countNames
countNames(namespace) == Len(namespace.own)

(***************************************************************************)
(* pair, getListItem and the conversions                                   *)
(***************************************************************************)
\* a zip that ends where the shorter side ends
ZipShortest(iX, iY) ==
    [i \in 1..(IF Len(iX) <= Len(iY) THEN Len(iX) ELSE Len(iY)) |->
        [first |-> iX[i], second |-> iY[i]]]

\* the items of two iterators side by side
Zip(iX, iY) ==
    [i \in 1..(IF Len(iX) >= Len(iY) THEN Len(iX) ELSE Len(iY)) |->
        [first  |-> IF i <= Len(iX) THEN iX[i] ELSE Undefined,
         second |-> IF i <= Len(iY) THEN iY[i] ELSE Undefined]]

\* function* pair (x, y): the zip, undefined where one side has run out
pair(x, y) == Zip(Iterate(TupleFrom(<<x>>)), Iterate(TupleFrom(<<y>>)))

\* getListItem (list, index), list being an array or a string
getListItem(list, index) ==
    IF Type(index) # "NUMBER" THEN NOTHING
    ELSE LET length == IF list.js = "string" THEN Len(list.s) ELSE Len(list.elems)
             whole == "n" \in DOMAIN index
             \* the index as a fraction num / den with den >= 0 (0 / 0: no number)
             den == IF whole THEN 1 ELSE IF index.den < 0 THEN -index.den ELSE index.den
             num == IF whole THEN index.n
                    ELSE IF index.den < 0 THEN -index.num ELSE index.num
             \* index < 0 ? list.length + index : index, times den
             at == IF num < 0 THEN length * den + num ELSE num
         IN  IF den # 0 /\ 0 <= at /\ at < length * den
             THEN (IF list.js = "string" THEN Str(CharAt(list.s, (at \div den) + 1))
                   ELSE list.elems[(at \div den) + 1])
             ELSE NOTHING

\* convertToBoolean
convertToBoolean(x) ==
    LET xType == Type(x)
    IN  CASE xType = "BOOLEAN" -> Ok(x.b)
          [] xType = "NUMBER" -> Ok(x # Num(0))
          [] xType = "FUNCTION" -> Ok(TRUE)
          [] xType = "STRING" -> Ok(Len(x.s) # 0)
          [] xType = "LIST" -> Ok(Len(x.elems) # 0)
          [] xType = "NAMESPACE" -> Ok(countNames(x) # 0)
          [] OTHER -> Raise(xType \o " cannot be converted to BOOLEAN")

\* context.bool (...items)
RECURSIVE bool(_)
bool(items) ==
    IF items = << >> THEN Ok(FALSE)
    ELSE Await(convertToBoolean(Head(items)), LAMBDA c :
             IF c.v THEN Ok(TRUE) ELSE bool(Tail(items)))

\* context.not (...items)
RECURSIVE not(_)
not(items) ==
    IF items = << >> THEN Ok(TRUE)
    ELSE Await(convertToBoolean(Head(items)), LAMBDA c :
             IF c.v THEN Ok(FALSE) ELSE not(Tail(items)))

(***************************************************************************)
(* The operator table: add, sub, mul, div, mod, pow                        *)
(***************************************************************************)
IsInt(x) == "n" \in DOMAIN x
Abs(n) == IF n < 0 THEN -n ELSE n

RECURSIVE Repeat(_, _)
Repeat(piece, n) == IF n <= 0 THEN "" ELSE piece \o Repeat(piece, n - 1)

\* multiplyList
RECURSIVE multiplyList(_, _)
multiplyList(list, n) == IF n < 1 THEN << >> ELSE list \o multiplyList(list, n - 1)

RECURSIVE Power(_, _)
Power(x, n) == IF n = 0 THEN 1 ELSE x * Power(x, n - 1)

\* the result of an operation on numbers, exact on the integers; a quotient
\* that is no integer stays a ratio
Arith(op, x, y) ==
    IF ~IsInt(x) \/ ~IsInt(y) THEN Ratio(0, 0)
    ELSE CASE op = "+" -> Num(x.n + y.n)
           [] op = "-" -> Num(x.n - y.n)
           [] op = "*" -> Num(x.n * y.n)
           [] op = "/" -> IF y.n # 0 /\ Abs(x.n) % Abs(y.n) = 0
                          THEN Num((IF (x.n < 0) = (y.n < 0) THEN 1 ELSE -1)
                                    * (Abs(x.n) \div Abs(y.n)))
                          ELSE Ratio(x.n, y.n)
           [] op = "%" -> IF y.n = 0 THEN NaN
                          ELSE Num((IF x.n < 0 THEN -1 ELSE 1) * (Abs(x.n) % Abs(y.n)))
           [] op = "^" -> IF y.n >= 0 THEN Num(Power(x.n, y.n))
                          ELSE Ratio(1, Power(x.n, -y.n))

Kinds(xType, yType) == xType \o "-" \o yType
NotDefined(operation, xType, yType) ==
    Raise(operation \o " operation not defined between " \o xType \o " and " \o yType)

\* add
add(x, y) ==
    IF Type(x) = "NOTHING" THEN Ok(y)
    ELSE IF Type(y) = "NOTHING" THEN Ok(x)
    ELSE With(Kinds(Type(x), Type(y)), LAMBDA kinds :
        CASE kinds = "BOOLEAN-BOOLEAN" -> Ok(Bool(x.b \/ y.b))
          [] kinds = "NUMBER-NUMBER" -> Ok(Arith("+", x, y))
          [] kinds = "STRING-STRING" -> Ok(Str(x.s \o y.s))
          [] kinds = "LIST-LIST" -> Ok(List(x.elems \o y.elems))
          [] kinds = "NAMESPACE-NAMESPACE" -> Ok(Obj(y.own, x.own \o x.inh))
          [] OTHER -> NotDefined("Sum", Type(x), Type(y)))

\* sub
sub(x, y) ==
    IF Type(x) = "NOTHING" THEN Ok(NOTHING)
    ELSE IF Type(y) = "NOTHING" THEN Ok(x)
    ELSE IF Kinds(Type(x), Type(y)) = "NUMBER-NUMBER" THEN Ok(Arith("-", x, y))
    ELSE NotDefined("Subtraction", Type(x), Type(y))

\* mul
mul(x, y) ==
    IF Type(x) = "NOTHING" THEN Ok(NOTHING)
    ELSE IF Type(y) = "NOTHING" THEN Ok(NOTHING)
    ELSE With(Kinds(Type(x), Type(y)), LAMBDA kinds :
        CASE kinds = "BOOLEAN-BOOLEAN" -> Ok(Bool(x.b /\ y.b))
          [] kinds = "NUMBER-NUMBER" -> Ok(Arith("*", x, y))
          [] kinds = "NUMBER-STRING" /\ IsInt(x) ->
                 Ok(Str(IF x.n < 0 THEN "" ELSE Repeat(y.s, x.n)))
          [] kinds = "STRING-NUMBER" /\ IsInt(y) ->
                 Ok(Str(IF y.n < 0 THEN "" ELSE Repeat(x.s, y.n)))
          [] kinds = "LIST-NUMBER" /\ IsInt(y) -> Ok(List(multiplyList(x.elems, y.n)))
          [] kinds = "NUMBER-LIST" /\ IsInt(x) -> Ok(List(multiplyList(y.elems, x.n)))
          [] OTHER -> NotDefined("Product", Type(x), Type(y)))

\* div
div(x, y) ==
    IF Type(x) = "NOTHING" THEN Ok(NOTHING)
    ELSE IF Kinds(Type(x), Type(y)) = "NUMBER-NUMBER" THEN Ok(Arith("/", x, y))
    ELSE NotDefined("Division", Type(x), Type(y))

\* a mod that is Nothing for a Nothing left operand, as div is
mod_as_div(x, y) ==
    IF Type(x) = "NOTHING" THEN Ok(NOTHING)
    ELSE IF Kinds(Type(x), Type(y)) = "NUMBER-NUMBER" THEN Ok(Arith("%", x, y))
    ELSE NotDefined("Modulo", Type(x), Type(y))

\* mod
mod(x, y) ==
    IF Type(x) = "NOTHING" THEN Ok(y)
    ELSE IF Kinds(Type(x), Type(y)) = "NUMBER-NUMBER" THEN Ok(Arith("%", x, y))
    ELSE NotDefined("Modulo", Type(x), Type(y))

\* pow
pow(x, y) ==
    IF Type(x) = "NOTHING" THEN Ok(NOTHING)
    ELSE IF Kinds(Type(x), Type(y)) = "NUMBER-NUMBER" THEN Ok(Arith("^", x, y))
    ELSE NotDefined("Exponentiation", Type(x), Type(y))

\* the scalar operation a lifted handler maps over the pairs
Scalar(op, x, y) ==
    CASE op = "$add" -> add(x, y)
      [] op = "$sub" -> sub(x, y)
      [] op = "$mul" -> mul(x, y)
      [] op = "$div" -> div(x, y)
      [] op = "$mod" -> mod(x, y)
      [] op = "$pow" -> pow(x, y)

\* pairs.map(pair => op(pair.first, pair.second)), as Tuple.prototype.map
\* accumulates it: retVals = Tuple.from(retVals, fn(item))
RECURSIVE MapPairs(_, _, _)
MapPairs(op, pairs, retVals) ==
    IF pairs = << >> THEN Ok(retVals)
    ELSE Await(Scalar(op, Head(pairs).first, Head(pairs).second), LAMBDA r :
             MapPairs(op, Tail(pairs), TupleFrom(<<retVals, r.v>>)))

(***************************************************************************)
(* compare, lexCompare, isEqual, isLexEqual                                *)
(***************************************************************************)
Rank(c) == CHOOSE i \in 1..Len(CodeUnits) : CodeUnits[i] = c

\* x sorts before y in [x,y].sort()
RECURSIVE StrBefore(_, _)
StrBefore(x, y) ==
    IF x = "" THEN y # ""
    ELSE IF y = "" THEN FALSE
    ELSE IF CharAt(x, 1) = CharAt(y, 1)
         THEN StrBefore(SubSeq(x, 2, Len(x)), SubSeq(y, 2, Len(y)))
    ELSE Rank(CharAt(x, 1)) < Rank(CharAt(y, 1))

RECURSIVE compare(_, _)
RECURSIVE lexCompare(_, _)
RECURSIVE ComparePairs(_)

\* the loop of lexCompare: the first comparison that is not 0
ComparePairs(pairs) ==
    IF pairs = << >> THEN Ok(0)
    ELSE Await(compare(Head(pairs).first, Head(pairs).second), LAMBDA cmp :
             IF cmp.v # 0 THEN cmp ELSE ComparePairs(Tail(pairs)))

\* lexCompare (tuple1, tuple2)
lexCompare(tuple1, tuple2) == ComparePairs(pair(tuple1, tuple2))

\* compare (x, y)
compare(x, y) ==
    IF Type(x) = "NOTHING" THEN Ok(IF Type(y) = "NOTHING" THEN 0 ELSE -1)
    ELSE IF Type(y) = "NOTHING" THEN Ok(1)
    ELSE With(Kinds(Type(x), Type(y)), LAMBDA kinds :
        CASE kinds = "BOOLEAN-BOOLEAN" ->
                 Ok(IF x.b = y.b THEN 0 ELSE IF x.b THEN 1 ELSE -1)
          [] kinds = "NUMBER-NUMBER" /\ IsInt(x) /\ IsInt(y) ->
                 Ok(IF x.n = y.n THEN 0 ELSE IF x.n < y.n THEN -1 ELSE 1)
          [] kinds = "STRING-STRING" ->
                 Ok(IF x.s = y.s THEN 0 ELSE IF StrBefore(x.s, y.s) THEN -1 ELSE 1)
          [] kinds = "LIST-LIST" -> lexCompare(TupleFrom(x.elems), TupleFrom(y.elems))
          [] OTHER -> NotDefined("Comparison", Type(x), Type(y)))

RECURSIVE isEqual(_, _)
RECURSIVE isLexEqual(_, _)

\* isEqual (x, y)
isEqual(x, y) ==
    LET xType == Type(x)
        yType == Type(y)
    IN  IF xType = "NOTHING" THEN yType = "NOTHING"
        ELSE CASE Kinds(xType, yType) \in
                    {"BOOLEAN-BOOLEAN", "NUMBER-NUMBER", "STRING-STRING",
                     "FUNCTION-FUNCTION"} -> x = y
               [] Kinds(xType, yType) = "LIST-LIST" ->
                       isLexEqual(TupleFrom(x.elems), TupleFrom(y.elems))
               [] Kinds(xType, yType) = "NAMESPACE-NAMESPACE" ->
                       LET xNames == SelectSeq(Keys(x.own), isValidName)
                           yNames == SelectSeq(Keys(y.own), isValidName)
                       IN  /\ Len(xNames) = Len(yNames)
                           /\ \A i \in 1..Len(xNames) :
                                 isEqual(ObjGet(x, xNames[i]),
                                         IF HasKey(y.own, xNames[i])
                                         THEN ObjGet(y, xNames[i]) ELSE Null)
               [] OTHER -> FALSE

\* isLexEqual (tuple1, tuple2)
isLexEqual(tuple1, tuple2) ==
    \A p \in {pair(tuple1, tuple2)} :
        \A i \in 1..Len(p) : isEqual(p[i].first, p[i].second)

(***************************************************************************)
(* stringify and context.str                                               *)
(***************************************************************************)
DigitChars == << "0", "1", "2", "3", "4", "5", "6", "7", "8", "9" >>

RECURSIVE NatToString(_)
NatToString(n) ==
    IF n < 10 THEN DigitChars[n + 1]
    ELSE NatToString(n \div 10) \o DigitChars[(n % 10) + 1]

\* String(x) for a number
NumberToString(x) ==
    IF ~IsInt(x) THEN NatToString(Abs(x.num)) \o "/" \o NatToString(Abs(x.den))
    ELSE IF x.n < 0 THEN "-" \o NatToString(-x.n) ELSE NatToString(x.n)

\* stringify; the function sign U+2A0D is written "fn"
stringify(x) ==
    LET xType == Type(x)
    IN  CASE xType = "BOOLEAN" -> Ok(IF x.b THEN "TRUE" ELSE "FALSE")
          [] xType = "NUMBER" -> Ok(NumberToString(x))
          [] xType = "FUNCTION" -> Ok("fn")
          [] xType = "STRING" -> Ok(x.s)
          [] xType = "LIST" -> Ok("[" \o NatToString(Len(x.elems)) \o "]")
          [] xType = "NAMESPACE" ->
                 Ok(IF Type(ObjGet(x, "__str__")) = "STRING" THEN ObjGet(x, "__str__").s
                    ELSE "{" \o NatToString(countNames(x)) \o "}")
          [] OTHER -> Raise(xType \o " cannot be converted to STRING")

\* context.str (...items)
RECURSIVE str(_)
str(items) ==
    IF items = << >> THEN Ok("")
    ELSE Await(stringify(Head(items)), LAMBDA a :
         Await(str(Tail(items)), LAMBDA b : Ok(a.v \o b.v)))

(***************************************************************************)
(* Context objects.  A frame is a context object: its own properties and   *)
(* its prototype, which is another frame, the module's `context` object,   *)
(* some other object, or null.                                             *)
(***************************************************************************)
ProtoFrame(f) == [to |-> "frame", frame |-> f]
ProtoContext == [to |-> "context"]
ProtoValue(v) == [to |-> "value", val |-> v]
ProtoNull == [to |-> "null"]
Frame(own, proto) == [own |-> own, proto |-> proto]

HandlerNames ==
    << "$nothing", "$str0", "$str1", "$str2", "$numb", "$pair", "$list", "$name",
       "$label", "$set", "$namespace", "$def", "$apply", "$dot", "$or", "$and",
       "$if", "$else", "$add", "$sub", "$mul", "$div", "$mod", "$pow", "$eq",
       "$ne", "$lt", "$ge", "$gt", "$le" >>

\* const context = {...}: the handlers and the built-in names
ContextEntries ==
    [i \in 1..Len(HandlerNames) |-> Entry(HandlerNames[i], ContextFn(HandlerNames[i]))]
    \o << Entry("bool", ContextFn("bool")), Entry("not", ContextFn("not")),
          Entry("str", ContextFn("str")), Entry("map", ContextFn("map")),
          Entry("TRUE", Bool(TRUE)), Entry("FALSE", Bool(FALSE)) >>

\* the data property `name` found from the object `ref` up its prototypes
RECURSIVE ChainGet(_, _, _)
ChainGet(h, ref, name) ==
    CASE ref.to = "frame" ->
             IF HasKey(h[ref.frame].own, name) THEN ValueOf(h[ref.frame].own, name)
             ELSE ChainGet(h, h[ref.frame].proto, name)
      [] ref.to = "context" ->
             IF HasKey(ContextEntries, name) THEN ValueOf(ContextEntries, name)
             ELSE IF name \in MetaNames THEN MetaFn(name)
             ELSE Undefined
      [] ref.to = "value" ->
             IF ref.val.js = "object" /\ HasKey(ref.val.own \o ref.val.inh, name)
             THEN ValueOf(ref.val.own \o ref.val.inh, name)
             ELSE IF name \in MetaNames THEN MetaFn(name)
             ELSE Undefined
      [] OTHER -> Undefined

\* whether the chain of `ref` ends in Object.prototype
RECURSIVE ReachesObjectPrototype(_, _)
ReachesObjectPrototype(h, ref) ==
    CASE ref.to = "frame" -> ReachesObjectPrototype(h, h[ref.frame].proto)
      [] ref.to = "null" -> FALSE
      [] OTHER -> TRUE

\* context.isPrototypeOf(ref)
RECURSIVE OnContext(_, _)
OnContext(h, ref) ==
    CASE ref.to = "frame" -> OnContext(h, h[ref.frame].proto)
      [] ref.to = "context" -> TRUE
      [] OTHER -> FALSE

\* the entries an object inherits, nearest first
RECURSIVE Inherited(_, _)
Inherited(h, ref) ==
    CASE ref.to = "frame" -> h[ref.frame].own \o Inherited(h, h[ref.frame].proto)
      [] ref.to = "context" -> ContextEntries
      [] ref.to = "value" ->
             IF ref.val.js = "object" THEN ref.val.own \o ref.val.inh ELSE << >>
      [] OTHER -> << >>

\* the object `ref` as a value (a copy of what it holds now)
AsValue(h, ref) ==
    CASE ref.to = "frame" -> Obj(h[ref.frame].own, Inherited(h, h[ref.frame].proto))
      [] ref.to = "context" -> Obj(ContextEntries, << >>)
      [] ref.to = "value" -> ref.val
      [] OTHER -> Null

\* this[name]: a data property of the chain, or the accessor __proto__ of
\* Object.prototype, which returns the prototype of `this`
Get(h, this, name) ==
    IF name = "__proto__" /\ ReachesObjectPrototype(h, ProtoFrame(this))
    THEN AsValue(h, h[this].proto)
    ELSE ChainGet(h, ProtoFrame(this), name)

\* an assignment that rebinds the name in the frame that already holds it
RECURSIVE PutWhereBound(_, _, _, _)
PutWhereBound(h, this, name, v) ==
    IF HasKey(h[this].own, name) \/ h[this].proto.to # "frame"
            \/ ChainGet(h, ProtoFrame(this), name) = Undefined
            \/ ChainGet(h, ProtoFrame(this), name) = MetaFn(name)
    THEN [h EXCEPT ![this].own = SetEntry(@, name, v)]
    ELSE PutWhereBound(h, h[this].proto.frame, name, v)

\* this[name] = v: an own data property, but for __proto__, whose setter on
\* Object.prototype replaces the prototype by an object or null and ignores
\* any other value
Put(h, this, name, v) ==
    IF name = "__proto__" /\ ReachesObjectPrototype(h, ProtoFrame(this))
    THEN CASE v.js \in {"object", "array", "function", "Tuple"} ->
                  [h EXCEPT ![this].proto = ProtoValue(v)]
           [] v.js = "null" -> [h EXCEPT ![this].proto = ProtoNull]
           [] OTHER -> h
    ELSE [h EXCEPT ![this].own = SetEntry(@, name, v)]

(***************************************************************************)
(* The parsed tree.  Parser turns the source into a function of the        *)
(* context that calls context[handler] on the operands; an operand is      *)
(* itself such a function (X, Y below).                                    *)
(***************************************************************************)
Void == [h |-> "$nothing"]
Number(n) == [h |-> "$numb", num |-> n]
\* a decimal literal that is no integer, as the fraction x / y
Decimal(x, y) == [h |-> "$numb", num |-> x, den |-> y]
String(s) == [h |-> "$str1", str |-> s]
Name(name) == [h |-> "$name", name |-> name]
Unary(h, X) == [h |-> h, X |-> X]
Binary(h, X, Y) == [h |-> h, X |-> X, Y |-> Y]
\* the operand () => Tuple.from(...args) that $def passes to $set
Constant(v) == [h |-> "constant", val |-> v]

ListOf(X) == Unary("$list", X)
NamespaceOf(X) == Unary("$namespace", X)
Pair(X, Y) == Binary("$pair", X, Y)
Label(X, Y) == Binary("$label", X, Y)
Set(X, Y) == Binary("$set", X, Y)
Def(X, Y) == Binary("$def", X, Y)
Apply(X, Y) == Binary("$apply", X, Y)
Dot(X, Y) == Binary("$dot", X, Y)

(***************************************************************************)
(* Evaluation.  An outcome carries the value or the error, the heap and    *)
(* the log of the host callables invoked so far.                           *)
(***************************************************************************)
Done(v, h, log) == [ok |-> TRUE, v |-> v, err |-> "", heap |-> h, log |-> log]
Fail(message, h, log) ==
    [ok |-> FALSE, v |-> Undefined, err |-> message, heap |-> h, log |-> log]
Lift(r, h, log) == IF r.ok THEN Done(r.v, h, log) ELSE Fail(r.err, h, log)

Called(id) == [ev |-> "call", id |-> id]
Returned(id) == [ev |-> "return", id |-> id]
Threw(id) == [ev |-> "throw", id |-> id]

\* what a host callable answers: "fail" throws, the others hand back their
\* first argument
HostResult(id, args) ==
    IF id = "fail" THEN Raise("host failure")
    ELSE Ok(IF args = << >> THEN Undefined ELSE args[1])

\* the truth of a value in an `if` of the host language
Truthy(v) ==
    CASE v.js \in {"null", "undefined", "NaN"} -> FALSE
      [] v.js = "boolean" -> v.b
      [] v.js = "number" -> v # Num(0)
      [] v.js = "string" -> v.s # ""
      [] OTHER -> TRUE

\* an operand of the parsed tree as the host sees it: a function of a context
Operand(tree) == [js |-> "function", fn |-> "operand", tree |-> tree]

\* what the parsed tree passes to context[handler]
HandlerArguments(node) ==
    CASE node.h = "$nothing" -> << >>
      [] node.h = "$name" -> <<Str(node.name)>>
      [] node.h = "$numb" -> <<IF "den" \in DOMAIN node THEN Ratio(node.num, node.den)
                               ELSE Num(node.num)>>
      [] node.h \in {"$str0", "$str1", "$str2"} -> <<Str(node.str)>>
      [] "Y" \in DOMAIN node -> <<Operand(node.X), Operand(node.Y)>>
      [] OTHER -> <<Operand(node.X)>>

RECURSIVE Eval(_, _, _, _)
RECURSIVE Call(_, _, _, _)
RECURSIVE apply(_, _, _, _, _)

\* the operands evaluated right to left
OperandsReversed(X, Y, this, h, log) ==
    Await(Eval(Y, this, h, log), LAMBDA ry :
    Await(Eval(X, this, ry.heap, ry.log), LAMBDA rx :
        [ok |-> TRUE, x |-> rx.v, y |-> ry.v, heap |-> rx.heap, log |-> rx.log]))

\* const x = await X(this); const y = await Y(this);
Operands(X, Y, this, h, log) ==
    Await(Eval(X, this, h, log), LAMBDA rx :
    Await(Eval(Y, this, rx.heap, rx.log), LAMBDA ry :
        [ok |-> TRUE, x |-> rx.v, y |-> ry.v, heap |-> ry.heap, log |-> ry.log]))

\* a $pair that evaluates Y also when X has failed, and then fails as X did
h_pair_settled(X, Y, this, h, log) ==
    With(Eval(X, this, h, log), LAMBDA x :
        IF x.ok
        THEN Await(Eval(Y, this, x.heap, x.log), LAMBDA y :
                 Done(TupleFrom(<<x.v, y.v>>), y.heap, y.log))
        ELSE With(Eval(Y, this, x.heap, x.log), LAMBDA y : Fail(x.err, y.heap, y.log)))

\* $pair
h_pair(X, Y, this, h, log) ==
    Await(Operands(X, Y, this, h, log), LAMBDA o :
        Done(TupleFrom(<<o.x, o.y>>), o.heap, o.log))

\* $list
h_list(X, this, h, log) ==
    Await(Eval(X, this, h, log), LAMBDA x :
        Done(List(Iterate(TupleFrom(<<x.v>>))), x.heap, x.log))

\* $name
h_name(name, this, h, log) ==
    With(Get(h, this, name), LAMBDA value :
        IF isValidName(name) /\ value # Undefined /\ value # ObjectPrototypeGet(name)
        THEN Done(value, h, log)
        ELSE Done(NOTHING, h, log))

\* X evaluated in the context {$nothing, $name: name => name, $pair} of $label
RECURSIVE NamesOf(_)
NamesOf(X) ==
    CASE X.h = "$nothing" -> Ok(NOTHING)
      [] X.h = "$name" -> Ok(Str(X.name))
      [] X.h = "$pair" ->
             Await(NamesOf(X.X), LAMBDA a :
             Await(NamesOf(X.Y), LAMBDA b : Ok(TupleFrom(<<a.v, b.v>>))))
      [] OTHER -> Raise("TypeError: " \o X.h \o " is not a function")

\* for (var i=0; i<names.length; i++) this[names[i]] = ...
RECURSIVE Bind(_, _, _, _, _)
Bind(h, this, names, values, i) ==
    IF i > Len(names) THEN h
    ELSE Bind(Put(h, this, names[i].s, IF i <= Len(values) THEN values[i] ELSE Null),
              this, names, values, i + 1)

\* if (values.length > names.length) values[names.length-1] = Tuple.from(...);
\* then the loop over the names
Assign(h, this, names, values) ==
    Bind(h, this, names,
         IF Len(values) > Len(names) /\ Len(names) >= 1
         THEN [values EXCEPT ![Len(names)] =
                  TupleFrom(SubSeq(values, Len(names), Len(values)))]
         ELSE values,
         1)

\* a $label that declares its names, bound to nothing, before it evaluates Y
h_label_declaring(X, Y, this, h, log) ==
    Await(Lift(NamesOf(X), h, log), LAMBDA x :
    Await(Eval(Y, this, Assign(h, this, Iterate(TupleFrom(<<x.v>>)), << >>), log),
          LAMBDA y :
        Done(y.v,
             Assign(y.heap, this, Iterate(TupleFrom(<<x.v>>)), Iterate(TupleFrom(<<y.v>>))),
             y.log)))

\* $label
h_label(X, Y, this, h, log) ==
    Await(Lift(NamesOf(X), h, log), LAMBDA x :
    Await(Eval(Y, this, h, log), LAMBDA y :
        Done(y.v,
             Assign(y.heap, this, Iterate(TupleFrom(<<x.v>>)), Iterate(TupleFrom(<<y.v>>))),
             y.log)))

\* $set
h_set(X, Y, this, h, log) ==
    Await(h_label(X, Y, this, h, log), LAMBDA r : Done(NOTHING, r.heap, r.log))

\* $namespace
h_namespace(X, this, h, log) ==
    Await(Eval(X, Len(h) + 1, Append(h, Frame(<< >>, ProtoFrame(this))), log),
          LAMBDA r :
              Done(Obj(AssignEntries(<< >>, r.heap[Len(h) + 1].own), << >>),
                   r.heap, r.log))

\* a $def whose function runs in a copy of the bindings at its definition
h_def_snapshot(params, expression, this, h, log) ==
    Done(Closure(params, expression, Len(h) + 1),
         Append(h, Frame(Inherited(h, ProtoFrame(this)), ProtoContext)), log)

\* $def
h_def(params, expression, this, h, log) ==
    Done(Closure(params, expression, this), h, log)

\* $apply
h_apply(X, Y, this, h, log) ==
    Await(Operands(X, Y, this, h, log), LAMBDA o : apply(o.x, o.y, this, o.heap, o.log))

\* a $dot that copies the entries of the namespace into the context itself
\* and evaluates Y there
RECURSIVE DotMapShared(_, _, _, _, _, _)
DotMapShared(namespaces, Y, this, h, log, retVals) ==
    IF namespaces = << >> THEN Done(retVals, h, log)
    ELSE IF Type(Head(namespaces)) # "NAMESPACE"
         THEN Fail("Namespace expected on the left size of the '.' operator", h, log)
    ELSE Await(Eval(Y, this,
                    [h EXCEPT ![this].own = AssignEntries(@, Head(namespaces).own)], log),
               LAMBDA r :
                   DotMapShared(Tail(namespaces), Y, this, r.heap, r.log,
                                TupleFrom(<<retVals, r.v>>)))

\* namespaces.map(async namespace => ...) of $dot
RECURSIVE DotMap(_, _, _, _, _, _)
DotMap(namespaces, Y, this, h, log, retVals) ==
    IF namespaces = << >> THEN Done(retVals, h, log)
    ELSE IF Type(Head(namespaces)) # "NAMESPACE"
         THEN Fail("Namespace expected on the left size of the '.' operator", h, log)
    ELSE Await(Eval(Y, Len(h) + 1,
                    Append(h, Frame(AssignEntries(<< >>, Head(namespaces).own),
                                    ProtoFrame(this))), log),
               LAMBDA r :
                   DotMap(Tail(namespaces), Y, this, r.heap, r.log,
                          TupleFrom(<<retVals, r.v>>)))

\* $dot
h_dot(X, Y, this, h, log) ==
    Await(Eval(X, this, h, log), LAMBDA x :
        DotMap(Iterate(TupleFrom(<<x.v>>)), Y, this, x.heap, x.log, NOTHING))

\* await this.bool(x), await this.not(x): the function the context holds
\* under that name, called on x
Judge(name, x, this, h, log) ==
    IF Get(h, this, name).js # "function"
    THEN Fail("TypeError: this." \o name \o " is not a function", h, log)
    ELSE Call(Get(h, this, name), <<x>>, h, log)

\* $or
h_or(X, Y, this, h, log) ==
    Await(Eval(X, this, h, log), LAMBDA x :
    Await(Judge("bool", x.v, this, x.heap, x.log), LAMBDA b :
        IF Truthy(b.v) THEN Done(x.v, b.heap, b.log)
        ELSE Eval(Y, this, b.heap, b.log)))

\* $and
h_and(X, Y, this, h, log) ==
    Await(Eval(X, this, h, log), LAMBDA x :
    Await(Judge("not", x.v, this, x.heap, x.log), LAMBDA b :
        IF Truthy(b.v) THEN Done(x.v, b.heap, b.log)
        ELSE Eval(Y, this, b.heap, b.log)))

\* $if
h_if(X, Y, this, h, log) ==
    Await(Eval(X, this, h, log), LAMBDA x :
    Await(Judge("bool", x.v, this, x.heap, x.log), LAMBDA b :
        IF Truthy(b.v) THEN Eval(Y, this, b.heap, b.log)
        ELSE Done(NOTHING, b.heap, b.log)))

\* a $else that is its left operand, whatever it is
h_else_first(X, Y, this, h, log) == Eval(X, this, h, log)

\* $else
h_else(X, Y, this, h, log) ==
    Await(Eval(X, this, h, log), LAMBDA x :
        IF isNothing(x.v) THEN Eval(Y, this, x.heap, x.log) ELSE x)

\* $add, $sub, $mul, $div, $mod, $pow
h_lifted(op, X, Y, this, h, log) ==
    Await(Operands(X, Y, this, h, log), LAMBDA o :
        Lift(MapPairs(op, pair(o.x, o.y), NOTHING), o.heap, o.log))

\* $eq, $ne
h_eq(negated, X, Y, this, h, log) ==
    Await(Operands(X, Y, this, h, log), LAMBDA o :
        Done(Bool(isLexEqual(o.x, o.y) # negated), o.heap, o.log))

\* a comparison handler that forgets the negation of $ge and $le
h_compare_plain(sign, negated, X, Y, this, h, log) ==
    Await(Operands(X, Y, this, h, log), LAMBDA o :
    Await(Lift(lexCompare(o.x, o.y), o.heap, o.log), LAMBDA c :
        Done(Bool(c.v = sign), o.heap, o.log)))

\* $lt and $gt (lexCompare == sign), $ge and $le (their negations)
h_compare(sign, negated, X, Y, this, h, log) ==
    Await(Operands(X, Y, this, h, log), LAMBDA o :
    Await(Lift(lexCompare(o.x, o.y), o.heap, o.log), LAMBDA c :
        Done(Bool((c.v = sign) # negated), o.heap, o.log)))

\* the tree calls context[handler](...operands)
Eval(node, this, h, log) ==
    IF node.h = "constant" THEN Done(node.val, h, log)
    ELSE IF Get(h, this, node.h).js # "function"
    THEN Fail("TypeError: context." \o node.h \o " is not a function", h, log)
    ELSE IF Get(h, this, node.h) # ContextFn(node.h)
    THEN Call(Get(h, this, node.h), HandlerArguments(node), h, log)
    ELSE CASE node.h = "$nothing" -> Done(NOTHING, h, log)
           [] node.h = "$numb" -> Done(IF "den" \in DOMAIN node
                                         THEN Ratio(node.num, node.den)
                                         ELSE Num(node.num), h, log)
           [] node.h \in {"$str0", "$str1", "$str2"} -> Done(Str(node.str), h, log)
           [] node.h = "$name" -> h_name(node.name, this, h, log)
           [] node.h = "$pair" -> h_pair(node.X, node.Y, this, h, log)
           [] node.h = "$list" -> h_list(node.X, this, h, log)
           [] node.h = "$label" -> h_label(node.X, node.Y, this, h, log)
           [] node.h = "$set" -> h_set(node.X, node.Y, this, h, log)
           [] node.h = "$namespace" -> h_namespace(node.X, this, h, log)
           [] node.h = "$def" -> h_def(node.X, node.Y, this, h, log)
           [] node.h = "$apply" -> h_apply(node.X, node.Y, this, h, log)
           [] node.h = "$dot" -> h_dot(node.X, node.Y, this, h, log)
           [] node.h = "$or" -> h_or(node.X, node.Y, this, h, log)
           [] node.h = "$and" -> h_and(node.X, node.Y, this, h, log)
           [] node.h = "$if" -> h_if(node.X, node.Y, this, h, log)
           [] node.h = "$else" -> h_else(node.X, node.Y, this, h, log)
           [] node.h \in {"$add", "$sub", "$mul", "$div", "$mod", "$pow"} ->
                  h_lifted(node.h, node.X, node.Y, this, h, log)
           [] node.h \in {"$eq", "$ne"} ->
                  h_eq(node.h = "$ne", node.X, node.Y, this, h, log)
           [] node.h \in {"$lt", "$ge", "$gt", "$le"} ->
                  h_compare(IF node.h \in {"$lt", "$ge"} THEN -1 ELSE 1,
                            node.h \in {"$ge", "$le"}, node.X, node.Y, this, h, log)

\* Tuple.from(...items).map(fn) of context.map
RECURSIVE MapCall(_, _, _, _, _)
MapCall(items, fn, h, log, retVals) ==
    IF items = << >> THEN Done(retVals, h, log)
    ELSE IF fn.js # "function" THEN Fail("TypeError: fn is not a function", h, log)
    ELSE Await(Call(fn, <<Head(items)>>, h, log), LAMBDA r :
             MapCall(Tail(items), fn, r.heap, r.log, TupleFrom(<<retVals, r.v>>)))

\* the function returned by $def, called on the arguments
CallClosure(f, args, h, log) ==
    IF Get(Append(h, Frame(<< >>, ProtoFrame(f.ctx))), Len(h) + 1, "$set")
           # ContextFn("$set")
    THEN Fail("TypeError: functionContext.$set is not a function",
              Append(h, Frame(<< >>, ProtoFrame(f.ctx))), log)
    ELSE Await(h_set(f.params, Constant(TupleFrom(args)), Len(h) + 1,
                     Append(h, Frame(<< >>, ProtoFrame(f.ctx))), log),
               LAMBDA bound : Eval(f.body, Len(h) + 1, bound.heap, bound.log))

\* f(...args) for a function value f
Call(f, args, h, log) ==
    CASE f.fn = "closure" -> CallClosure(f, args, h, log)
      [] f.fn = "host" ->
             IF HostResult(f.id, args).ok
             THEN Done(HostResult(f.id, args).v, h, log \o <<Called(f.id), Returned(f.id)>>)
             ELSE Fail(HostResult(f.id, args).err, h, log \o <<Called(f.id), Threw(f.id)>>)
      [] f.fn = "mapped" -> MapCall(Iterate(TupleFrom(args)), f.of, h, log, NOTHING)
      [] f.fn = "context" /\ f.name = "bool" ->
             Await(Lift(bool(args), h, log), LAMBDA r : Done(Bool(r.v), h, log))
      [] f.fn = "context" /\ f.name = "not" ->
             Await(Lift(not(args), h, log), LAMBDA r : Done(Bool(r.v), h, log))
      [] f.fn = "context" /\ f.name = "str" ->
             Await(Lift(str(args), h, log), LAMBDA r : Done(Str(r.v), h, log))
      [] f.fn = "context" /\ f.name = "map" ->
             Done(Mapped(IF args = << >> THEN Undefined ELSE args[1]), h, log)
      [] OTHER -> Fail("a function of the host language, not modelled", h, log)

\* x.map(xi => apply.call(this, xi, y))
RECURSIVE ApplyMap(_, _, _, _, _, _)
ApplyMap(items, y, this, h, log, retVals) ==
    IF items = << >> THEN Done(retVals, h, log)
    ELSE Await(apply(Head(items), y, this, h, log), LAMBDA r :
             ApplyMap(Tail(items), y, this, r.heap, r.log, TupleFrom(<<retVals, r.v>>)))

\* apply (x, y)
apply(x, y, this, h, log) ==
    CASE Type(x) = "FUNCTION" -> Call(x, Iterate(TupleFrom(<<y>>)), h, log)
      [] Type(x) \in {"STRING", "LIST"} -> Done(getListItem(x, y), h, log)
      [] Type(x) = "NAMESPACE" ->
             IF ObjGet(x, "__apply__").js = "function"
             THEN apply(ObjGet(x, "__apply__"), y, this, h, log)
             ELSE IF Type(y) # "STRING" THEN Done(NOTHING, h, log)
             ELSE IF isValidName(y.s) /\ HasKey(x.own, y.s)
                  THEN Done(ObjGet(x, y.s), h, log)
             ELSE Done(NOTHING, h, log)
      [] Type(x) = "TUPLE" -> ApplyMap(Iterate(x), y, this, h, log, NOTHING)
      [] OTHER -> Fail("Apply operation not defined on " \o Type(x) \o " type", h, log)

(***************************************************************************)
(* The embedding surface                                                   *)
(***************************************************************************)
\* exports.parse(expression)(expressionContext)
Run(program, expressionContext, h) ==
    IF ~OnContext(h, h[expressionContext].proto)
    THEN Fail("Invalid context.", h, << >>)
    ELSE Await(Eval(program, expressionContext, h, << >>), LAMBDA r :
             IF r.v.js = "Tuple" THEN [r EXCEPT !.v = Normalize(r.v)] ELSE r)

\* exports.createContext(globals): the frame of the globals and, on top of
\* it, the context the host evaluates in
createContext(globals) ==
    << Frame(AssignEntries(<< >>, globals), ProtoContext), Frame(<< >>, ProtoFrame(1)) >>

(***************************************************************************)
(* The host.  It holds contexts (frames of the heap) and evaluates parsed  *)
(* programs in them; `last` records the latest evaluation: the program,    *)
(* the context, the heap before and after, and the outcome.                *)
(***************************************************************************)
MaxNumber == 2
MaxNames == 3
MaxValues == 4
MaxEvals == 3
MaxArgument == 5

Idle ==
    [op |-> "none", prog |-> Void, ctx |-> 0, pre |-> << >>, post |-> << >>,
     ok |-> TRUE, val |-> Undefined, err |-> "", log |-> << >>]

\* the frames a value refers to: the contexts its functions were defined in
RECURSIVE RefsOf(_)
RefsOf(v) ==
    CASE v.js = "function" /\ v.fn = "closure" -> {v.ctx}
      [] v.js = "function" /\ v.fn = "mapped" -> RefsOf(v.of)
      [] v.js = "array" -> UNION {RefsOf(v.elems[i]) : i \in 1..Len(v.elems)}
      [] v.js = "Tuple" -> UNION {RefsOf(v.items[i]) : i \in 1..Len(v.items)}
      [] v.js = "object" ->
             UNION {RefsOf((v.own \o v.inh)[i].v) : i \in 1..Len(v.own \o v.inh)}
      [] OTHER -> {}

\* the heap once an evaluation has returned: the child contexts it created
\* are its local variables, and stay only if a binding of one of the first n
\* frames refers to them
Retained(h, n) ==
    IF \E f \in 1..n :
          \/ \E i \in 1..Len(h[f].own) : \E g \in RefsOf(h[f].own[i].v) : g > n
          \/ h[f].proto.to = "value" /\ \E g \in RefsOf(h[f].proto.val) : g > n
    THEN h
    ELSE SubSeq(h, 1, n)

\* await parse(program)(ctx)
Evaluate(program, ctx) ==
    /\ ctx \in 1..Len(heap)
    /\ \E r \in {Run(program, ctx, heap)} :
          /\ heap' = Retained(r.heap, Len(heap))
          /\ last' = [op |-> "evaluate", prog |-> program, ctx |-> ctx, pre |-> heap,
                      post |-> r.heap, ok |-> r.ok, val |-> r.v, err |-> r.err,
                      log |-> r.log]
    /\ evals' = evals + 1

\* what a value shows to the host: the values it enumerates
Observed(v) ==
    IF v.js = "Tuple" THEN Iterate(v)
    ELSE IF Type(v) = "NOTHING" THEN << >>
    ELSE <<v>>

\* the globals of the scenarios of section 8 of the specification, with
\* host values of the other kinds
Globals ==
    << Entry("a", Num(10)), Entry("b", Num(20)), Entry("T", Bool(TRUE)),
       Entry("F", Bool(FALSE)), Entry("n", Null),
       Entry("t", TupleFrom(<<Num(3), Str("s")>>)),
       Entry("h1", HostFn("h1")), Entry("h2", HostFn("h2")),
       Entry("h3", HostFn("h3")), Entry("h4", HostFn("h4")),
       Entry("fail", HostFn("fail")) >>

(***************************************************************************)
(* Tuples: one evaluation of a pairing of atoms.                           *)
(***************************************************************************)
Atoms ==
    {Number(i) : i \in 1..MaxNumber} \cup {Void, Name("t"), Name("n"), Name("u")}

Nest4(a, b, c, d) == Pair(Pair(a, Pair(b, c)), d)
Deep4(a, b, c, d) == Pair(a, Pair(b, Pair(c, d)))
Flat4(a, b, c, d) == Pair(Pair(Pair(a, b), c), d)
Voids == Pair(Pair(Void, Void), Void)

TuplePrograms ==
    {Nest4(a, b, c, d) : a \in Atoms, b \in Atoms, c \in Atoms, d \in Atoms}
    \cup {Deep4(a, b, c, d) : a \in Atoms, b \in Atoms, c \in Atoms, d \in Atoms}
    \cup {Pair(Pair(a, Void), b) : a \in Atoms, b \in Atoms}
    \cup {Binary("$add", Pair(a, b), Pair(c, Void)) : a \in Atoms, b \in Atoms, c \in Atoms}
    \cup {Apply(Pair(Name("h1"), Name("h2")), a) : a \in Atoms}
    \cup {Label(Name("x"), Pair(a, b)) : a \in Atoms, b \in Atoms}
    \cup {Void, Voids}

InitTuple == heap = createContext(Globals) /\ last = Idle /\ evals = 0
NextTuple == \E program \in TuplePrograms : evals = 0 /\ Evaluate(program, 2)
SpecTuple == InitTuple /\ [][NextTuple]_vars

\* the elements a program evaluates to in the context of the last evaluation
Elements(program) == Observed(Run(program, last.ctx, last.pre).v)

\* C1: pairing flattens and drops Nothing: (a,(b,c),d) and a,(b,(c,d)) show
\* the elements of a, b, c, d in that order, as (a,b,c,d) does; (a,(),b)
\* equals (a,b); () and (),(),() are Nothing.
C1_Flattening ==
    last.op = "evaluate" =>
        /\ \A a \in Atoms, b \in Atoms, c \in Atoms, d \in Atoms :
              last.prog \in {Nest4(a, b, c, d), Deep4(a, b, c, d)} =>
                  /\ last.ok
                  /\ Observed(last.val) = Elements(Flat4(a, b, c, d))
                  /\ Observed(last.val) =
                        Elements(a) \o Elements(b) \o Elements(c) \o Elements(d)
        /\ \A a \in Atoms, b \in Atoms :
              last.prog = Pair(Pair(a, Void), b) =>
                  last.ok /\ Observed(last.val) = Elements(Pair(a, b))
        /\ last.prog \in {Void, Voids} => last.ok /\ Type(last.val) = "NOTHING"

\* a nested pairing of four elements, one of them a tuple, has been evaluated
C1_Witness ==
    /\ last.op = "evaluate"
    /\ last.prog = Nest4(Number(1), Name("t"), Void, Number(2))
    /\ Observed(last.val) = <<Num(1), Num(3), Str("s"), Num(2)>>

\* the value the tree of the last program returns, before exports.parse
\* normalizes it
Raw == Eval(last.prog, last.ctx, last.pre, << >>).v

\* C2: the value an evaluation returns is normalized: Nothing for no element,
\* the element itself for one, and a tuple only for two or more elements,
\* none of them Nothing or a tuple.
C2_Normalized ==
    last.op = "evaluate" /\ last.ok =>
        /\ Len(Observed(Raw)) = 0 => Type(last.val) = "NOTHING"
        /\ Len(Observed(Raw)) = 1 => last.val = Observed(Raw)[1]
        /\ last.val.js = "Tuple" =>
              /\ Len(Iterate(last.val)) >= 2
              /\ \A i \in 1..Len(Iterate(last.val)) :
                    LET item == Iterate(last.val)[i]
                    IN  Type(item) \notin {"NOTHING", "TUPLE"}

\* the tree returned a tuple of one element and the evaluation returned the
\* element
C2_Witness ==
    /\ last.op = "evaluate" /\ last.ok
    /\ Raw.js = "Tuple" /\ Len(Iterate(Raw)) = 1
    /\ last.val = Num(1)

(***************************************************************************)
(* Logical operators: one evaluation of X op Y, for a left operand X of    *)
(* every kind and a right operand Y whose evaluation the host can observe. *)
(***************************************************************************)
Conditions ==
    {Number(i) : i \in 0..MaxNumber}
    \cup {Void, Name("n"), Name("u"), Name("T"), Name("F"), Name("h1"),
          String(""), String("a"), ListOf(Void), ListOf(Number(1)),
          NamespaceOf(Void), NamespaceOf(Set(Name("k"), Number(1))),
          Def(Name("x"), Name("x")),
          Pair(Number(0), Number(0)), Pair(Number(0), Number(1)),
          Pair(Name("F"), String("")),
          Apply(Name("h1"), Number(0)), Apply(Name("h1"), Number(1))}

\* Y calls the host callable h2, and may bind y before it
Consequents ==
    {Apply(Name("h2"), Number(5)),
     Pair(Set(Name("y"), Number(5)), Apply(Name("h2"), Number(6)))}

LogicalHandlers == {"$or", "$and", "$if", "$else"}

InitLogic == heap = createContext(Globals) /\ last = Idle /\ evals = 0
NextLogic ==
    \/ \E op \in LogicalHandlers, X \in Conditions, Y \in Consequents :
          evals = 0 /\ Evaluate(Binary(op, X, Y), 2)
    \/ \E f \in {"bool", "not"}, X \in Conditions :
          evals = 0 /\ Evaluate(Apply(Name(f), X), 2)
SpecLogic == InitLogic /\ [][NextLogic]_vars

\* the outcome of a program in the context of the last evaluation
Alone(program) == Run(program, last.ctx, last.pre)

\* how many times the host callable id was invoked in the last evaluation
Calls(id) == Cardinality({i \in 1..Len(last.log) : last.log[i] = Called(id)})

\* C3: the left operand X of |, & and ? is judged by its truth value for any
\* X, Nothing and tuples included, without an error, and the result follows
\* from that truth value as from `bool X`: X | Y is X if true, else Y;
\* X & Y is X if false, else Y; X ? Y is Y if true, else Nothing.
C3_Truthiness ==
    last.op = "evaluate" =>
        \A op \in {"$or", "$and", "$if"}, X \in Conditions, Y \in Consequents :
            last.prog = Binary(op, X, Y) /\ Alone(X).ok /\ Alone(Apply(Name("bool"), X)).ok =>
                LET truth == Alone(Apply(Name("bool"), X)).v.b
                    x == Alone(X).v
                    y == Alone(Y).v
                IN  /\ last.ok
                    /\ last.val = CASE op = "$or" -> IF truth THEN x ELSE y
                                    [] op = "$and" -> IF truth THEN y ELSE x
                                    [] op = "$if" -> IF truth THEN y ELSE Null

\* () | h2 5 has been evaluated: `bool ()` is false, yet the evaluation
\* raises instead of giving the value of h2 5
C3_Witness ==
    /\ last.op = "evaluate"
    /\ last.prog = Binary("$or", Void, Apply(Name("h2"), Number(5)))
    /\ Alone(Apply(Name("bool"), Void)).v = Bool(FALSE)
    /\ ~last.ok /\ last.err = "TUPLE cannot be converted to BOOLEAN"

\* C4: when X settles the result (X true in X | Y, X false in X & Y and
\* X ? Y, X not Nothing in X ; Y) Y is not evaluated; otherwise Y is
\* evaluated exactly once and its value is the result.
C4_ShortCircuit ==
    last.op = "evaluate" =>
        \A op \in LogicalHandlers, X \in Conditions, Y \in Consequents :
            last.prog = Binary(op, X, Y) /\ Alone(X).ok /\ Alone(Apply(Name("bool"), X)).ok =>
                LET truth == Alone(Apply(Name("bool"), X)).v.b
                    settled == CASE op = "$or" -> truth
                                 [] op \in {"$and", "$if"} -> ~truth
                                 [] op = "$else" -> ~isNothing(Alone(X).v)
                IN  IF settled
                    THEN Calls("h2") = 0 /\ ~HasKey(last.post[last.ctx].own, "y")
                    ELSE last.ok /\ Calls("h2") = 1 /\ last.val = Alone(Y).v

\* (0, 1) & h2 5 has been evaluated: `bool (0, 1)` is true, yet h2 was not
\* invoked
C4_Witness ==
    /\ last.op = "evaluate"
    /\ last.prog = Binary("$and", Pair(Number(0), Number(1)), Apply(Name("h2"), Number(5)))
    /\ Alone(Apply(Name("bool"), Pair(Number(0), Number(1)))).v = Bool(TRUE)
    /\ Calls("h2") = 0 /\ ~last.ok

(***************************************************************************)
(* Order of evaluation: one evaluation of X op Y, where X invokes the host *)
(* callables h1, h2 or fail and Y invokes h3, h4.                          *)
(***************************************************************************)
LeftOperands ==
    {Apply(Name("h1"), Number(i)) : i \in 1..MaxNumber}
    \cup {Name("h1"),
          Pair(Apply(Name("h1"), Number(1)), Apply(Name("h2"), Number(2))),
          Binary("$add", Apply(Name("h1"), Number(1)), Apply(Name("h2"), Number(2))),
          Apply(Name("h1"), Apply(Name("h2"), Name("h1"))),
          Pair(Apply(Name("h1"), Number(1)), Apply(Name("fail"), Number(2)))}

RightOperands ==
    {Apply(Name("h3"), Number(i)) : i \in 1..MaxNumber}
    \cup {Pair(Apply(Name("h3"), Number(3)), Apply(Name("h4"), Number(4))),
          Binary("$mul", Apply(Name("h4"), Number(3)), Apply(Name("h3"), Number(4)))}

EagerHandlers ==
    {"$pair", "$add", "$sub", "$mul", "$div", "$mod", "$pow",
     "$eq", "$ne", "$lt", "$le", "$gt", "$ge", "$apply"}

InitOrder == heap = createContext(Globals) /\ last = Idle /\ evals = 0
NextOrder ==
    \E op \in EagerHandlers, X \in LeftOperands, Y \in RightOperands :
        evals = 0 /\ Evaluate(Binary(op, X, Y), 2)
SpecOrder == InitOrder /\ [][NextOrder]_vars

\* the positions of the log at which a host callable of ids is entered or left
Events(ids) == {i \in 1..Len(last.log) : last.log[i].id \in ids}

\* C5: the operands of pairing, arithmetic, comparison and application are
\* evaluated left to right: the evaluation of X has run to its end, every
\* host callable it invokes having returned or thrown, before the first host
\* callable of Y is called, and Y is not started when X fails.
C5_LeftToRight ==
    last.op = "evaluate" =>
        \A op \in EagerHandlers, X \in LeftOperands, Y \in RightOperands :
            last.prog = Binary(op, X, Y) =>
                LET left == Events({"h1", "h2", "fail"})
                    right == Events({"h3", "h4"})
                IN  /\ op # "$apply" => \A i \in left, j \in right : i < j
                    /\ Len(last.log) >= Len(Alone(X).log)
                    /\ SubSeq(last.log, 1, Len(Alone(X).log)) = Alone(X).log
                    /\ IF Alone(X).ok
                       THEN SubSeq(last.log, Len(Alone(X).log) + 1,
                                   Len(Alone(X).log) + Len(Alone(Y).log)) = Alone(Y).log
                       ELSE right = {}

\* both operands of an addition invoked two host callables each, in order
C5_Witness ==
    /\ last.op = "evaluate" /\ last.ok
    /\ last.prog.h = "$add"
    /\ last.log = <<Called("h1"), Returned("h1"), Called("h2"), Returned("h2"),
                    Called("h3"), Returned("h3"), Called("h4"), Returned("h4")>>

(***************************************************************************)
(* Labelling: one evaluation of `names = values` or `names : values`, for  *)
(* up to MaxNames distinct names and up to MaxValues values.               *)
(***************************************************************************)
Identifiers == {"p", "q", "r", "s", "__proto__"}

NameLists ==
    UNION {{names \in [1..n -> Identifiers] :
               \A i \in 1..n, j \in 1..n : names[i] = names[j] => i = j}
           : n \in 0..MaxNames}

\* the trees the parser builds for x1, x2, ..., xn
RECURSIVE Tupled(_)
Tupled(trees) ==
    IF trees = << >> THEN Void
    ELSE IF Len(trees) = 1 THEN trees[1]
    ELSE Pair(Tupled(SubSeq(trees, 1, Len(trees) - 1)), trees[Len(trees)])

NamesTree(names) == Tupled([i \in 1..Len(names) |-> Name(names[i])])
ValuesTree(m) == Tupled([i \in 1..m |-> Number(i)])

InitLabel == heap = createContext(Globals) /\ last = Idle /\ evals = 0
NextLabel ==
    \E op \in {"$set", "$label"}, names \in NameLists, m \in 0..MaxValues :
        evals = 0 /\ Evaluate(Binary(op, NamesTree(names), ValuesTree(m)), 2)
SpecLabel == InitLabel /\ [][NextLabel]_vars

\* the frame the last evaluation ran in, as it left it
After == last.post[last.ctx].own

\* the value labelling gives the i-th of n names out of the values 1..m
Share(i, n, m) ==
    IF i > m THEN NOTHING
    ELSE IF i < n \/ m = n THEN Num(i)
    ELSE TupleFrom([k \in 1..(m - n + 1) |-> Num(n + k - 1)])

\* C6: labelling n names with m values leaves every one of the n names
\* defined in the current frame: one to one when m = n, the trailing names
\* Nothing when m < n, the last name the tuple of the remaining values when
\* m > n; `names = values` is Nothing and `names : values` is the values.
C6_Labelling ==
    last.op = "evaluate" =>
        \A op \in {"$set", "$label"}, names \in NameLists, m \in 0..MaxValues :
            last.prog = Binary(op, NamesTree(names), ValuesTree(m)) =>
                /\ last.ok
                /\ \A i \in 1..Len(names) :
                      /\ HasKey(After, names[i])
                      /\ IF i > m THEN isNothing(ValueOf(After, names[i]))
                         ELSE ValueOf(After, names[i]) = Share(i, Len(names), m)
                /\ IF op = "$set" THEN Type(last.val) = "NOTHING"
                   ELSE Observed(last.val) = [k \in 1..m |-> Num(k)]

\* `p, __proto__ = 1, 2` has been evaluated and has bound p alone
C6_Witness ==
    /\ last.op = "evaluate" /\ last.ok
    /\ last.prog = Set(NamesTree(<<"p", "__proto__">>), ValuesTree(2))
    /\ Keys(After) = <<"p">>

(***************************************************************************)
(* A host session: a context S on the globals, two child contexts U and V  *)
(* of S, and up to MaxEvals evaluations in them, one after the other.      *)
(***************************************************************************)
HostNamespace ==
    Obj(<<Entry("$a", Num(9)), Entry("1x", Num(8)), Entry("a-b", Num(6)), Entry("k", Num(1))>>,
        << >>)

SessionGlobals ==
    << Entry("a", Num(1)), Entry("$a", Num(7)), Entry("1x", Num(8)), Entry("a-b", Num(6)),
       Entry("ns", HostNamespace), Entry("h1", HostFn("h1")) >>

S == 2
U == 3
V == 4
Contexts == {S, U, V}

\* f = x -> x + a
DefineF == Set(Name("f"), Def(Name("x"), Binary("$add", Name("x"), Name("a"))))
CallF == Apply(Name("f"), Number(1))

Rebindings == {Set(Name("a"), Number(i)) : i \in 2..MaxNumber} \cup {DefineF}

\* programs that bind a name in a child frame: of a namespace literal, of a
\* function body, of the right operand of `.`; the binding is of `name` to
\* `value` in the `child`-th frame the evaluation creates
Scoped ==
    { [prog |-> NamespaceOf(Set(Name("a"), Number(3))),
       child |-> 1, name |-> "a", value |-> Num(3)],
      [prog |-> NamespaceOf(Pair(Set(Name("f"), Number(0)), Label(Name("z"), Number(1)))),
       child |-> 1, name |-> "f", value |-> Num(0)],
      [prog |-> NamespaceOf(Pair(Set(Name("z"), Number(1)),
                                 NamespaceOf(Set(Name("z"), Number(2))))),
       child |-> 1, name |-> "z", value |-> Num(1)],
      [prog |-> Apply(Def(Name("p"), Set(Name("a"), Name("p"))), Number(4)),
       child |-> 1, name |-> "a", value |-> Num(4)],
      [prog |-> Dot(NamespaceOf(Set(Name("k"), Number(1))), Set(Name("a"), Number(5))),
       child |-> 2, name |-> "a", value |-> Num(5)],
      [prog |-> Dot(Name("ns"), Label(Name("k"), Number(6))),
       child |-> 1, name |-> "k", value |-> Num(6)] }

BadNames == {"$a", "1x", "a-b"}
PrototypeNames == MetaNames \cup {"__proto__"}

Lookups ==
    {Name(name) : name \in BadNames \cup PrototypeNames \cup {"a", "k"}}
    \cup {Apply(Name("ns"), String(name)) : name \in BadNames \cup {"k"}}
    \cup {Dot(Name("ns"), Name(name)) : name \in BadNames \cup {"k"}}

\* f called in the current scope, in a caller scope that rebinds a, and
\* after a sibling scope has rebound a
CallsOfF ==
    {CallF,
     NamespaceOf(Pair(Set(Name("a"), Number(5)), Set(Name("r"), CallF))),
     Pair(NamespaceOf(Set(Name("a"), Number(5))), CallF)}

Init ==
    /\ heap = createContext(SessionGlobals)
                 \o <<Frame(<< >>, ProtoFrame(S)), Frame(<< >>, ProtoFrame(S))>>
    /\ last = Idle
    /\ evals = 0

Next ==
    \/ \E ctx \in Contexts, program \in Rebindings :
          evals < MaxEvals /\ Evaluate(program, ctx)
    \/ \E ctx \in Contexts, scoped \in Scoped :
          evals < MaxEvals /\ Evaluate(scoped.prog, ctx)
    \/ \E ctx \in Contexts, program \in Lookups :
          evals < MaxEvals /\ Evaluate(program, ctx)
    \/ \E ctx \in Contexts, program \in CallsOfF :
          evals < MaxEvals /\ Evaluate(program, ctx)

Spec == Init /\ [][Next]_vars

\* C7: a binding made inside a namespace literal, a function body or the
\* right operand of `.` adds or changes a binding in that child frame alone:
\* every frame that existed before is left as it was; and the namespace of
\* {expr} holds exactly the names bound in its own child frame.
C7_WriteIsolation ==
    last.op = "evaluate" =>
        \A scoped \in Scoped :
            last.prog = scoped.prog =>
                /\ last.ok
                /\ \A f \in 1..Len(last.pre) : last.post[f] = last.pre[f]
                /\ Len(last.post) >= Len(last.pre) + scoped.child
                /\ HasKey(last.post[Len(last.pre) + scoped.child].own, scoped.name)
                /\ ValueOf(last.post[Len(last.pre) + scoped.child].own, scoped.name)
                      = scoped.value
                /\ scoped.prog.h = "$namespace" =>
                      last.val = Obj(last.post[Len(last.pre) + 1].own, << >>)

\* {a = 3} has been evaluated in a context that binds a itself: the
\* namespace holds a alone and the context is as it was
C7_Witness ==
    /\ last.op = "evaluate"
    /\ last.prog = NamespaceOf(Set(Name("a"), Number(3)))
    /\ HasKey(last.pre[last.ctx].own, "a")
    /\ last.val = Obj(<<Entry("a", Num(3))>>, << >>)
    /\ last.post[last.ctx] = last.pre[last.ctx]

\* C8: a name that is no identifier ($a, 1x, a-b) never resolves to the
\* value the host has put under it: not as a name, not as the string key of
\* a namespace application, not as a name read in a namespace.
C8_Whitelist ==
    last.op = "evaluate" =>
        \A name \in BadNames :
            last.prog \in {Name(name), Apply(Name("ns"), String(name)),
                           Dot(Name("ns"), Name(name))} =>
                last.ok /\ Type(last.val) = "NOTHING"

\* ns "$a" has been evaluated, ns holding 9 under $a, and is Nothing
C8_Witness ==
    /\ last.op = "evaluate" /\ last.ok
    /\ last.prog = Apply(Name("ns"), String("$a"))
    /\ ObjGet(Get(last.pre, last.ctx, "ns"), "$a") = Num(9)
    /\ Type(last.val) = "NOTHING"

\* C9: the members of Object.prototype do not leak as names: hasOwnProperty,
\* isPrototypeOf, toString, constructor, __proto__ and the like evaluate to
\* Nothing.
C9_PrototypeHygiene ==
    last.op = "evaluate" =>
        \A name \in PrototypeNames :
            last.prog = Name(name) => last.ok /\ Type(last.val) = "NOTHING"

\* the name __proto__ has been evaluated and is a namespace: the parent of
\* the context
C9_Witness ==
    /\ last.op = "evaluate" /\ last.ok
    /\ last.prog = Name("__proto__")
    /\ Type(last.val) = "NAMESPACE"

\* the frame, from ctx up its parents, that binds the name itself; 0 if none
RECURSIVE Owner(_, _, _)
Owner(h, ctx, name) ==
    IF HasKey(h[ctx].own, name) THEN ctx
    ELSE IF h[ctx].proto.to = "frame" THEN Owner(h, h[ctx].proto.frame, name)
    ELSE 0

\* the value of f 1, f having been defined in the frame d: 1 + a, a read
\* from d
Captured(d) == Num(1 + Get(last.pre, d, "a").n)

\* C10: f = x -> x + a reads a from the scope S it was defined in, whatever
\* the scope it is called from: rebinding a in a sibling scope or in the
\* caller's scope does not change f 1, rebinding a in S does.
C10_LexicalCapture ==
    last.op = "evaluate" /\ Owner(last.pre, last.ctx, "f") # 0 =>
        \A d \in {Owner(last.pre, last.ctx, "f")} :
            /\ last.prog = CallF => last.ok /\ last.val = Captured(d)
            /\ last.prog = NamespaceOf(Pair(Set(Name("a"), Number(5)), Set(Name("r"), CallF))) =>
                  last.ok /\ last.val = Obj(<<Entry("a", Num(5)), Entry("r", Captured(d))>>, << >>)
            /\ last.prog = Pair(NamespaceOf(Set(Name("a"), Number(5))), CallF) =>
                  /\ last.ok
                  /\ Observed(last.val) = <<Obj(<<Entry("a", Num(5))>>, << >>), Captured(d)>>

\* f, defined in S where a is 1, has been called from U, where a is 2, and
\* f 1 is 2
C10_Witness ==
    /\ last.op = "evaluate" /\ last.ok
    /\ last.prog = CallF /\ last.ctx = U
    /\ Owner(last.pre, U, "f") = S
    /\ Get(last.pre, U, "a") = Num(2) /\ Get(last.pre, S, "a") = Num(1)
    /\ last.val = Num(2)

(***************************************************************************)
(* Functions: up to MaxEvals evaluations in the context S, which define    *)
(* functions, rebind the names they read and call them.                    *)
(***************************************************************************)
\* g = (y -> x -> x + y) 2: g is defined in the scope of a call that ends
MakeG ==
    Set(Name("g"),
        Apply(Def(Name("y"), Def(Name("x"), Binary("$add", Name("x"), Name("y")))),
              Number(2)))
CallG == Apply(Name("g"), Number(1))

\* {f = x -> x + a, a = 2, r = f 1}: a is assigned in the scope f was
\* defined in, after the definition
Within ==
    NamespaceOf(Pair(DefineF, Pair(Set(Name("a"), Number(2)), Set(Name("r"), CallF))))

\* f = n -> n<=1 ? 1 ; n * f(n-1)
FactorialBody ==
    Binary("$else",
           Binary("$if", Binary("$le", Name("n"), Number(1)), Number(1)),
           Binary("$mul", Name("n"),
                  Apply(Name("f"), Binary("$sub", Name("n"), Number(1)))))
DefineFactorial == Set(Name("f"), Def(Name("n"), FactorialBody))

FunctionDefinitions ==
    {DefineF, MakeG, DefineFactorial} \cup {Set(Name(n), Number(i)) : n \in {"a", "y"}, i \in 2..MaxNumber}
FunctionCalls ==
    {CallF, CallG, Within} \cup {Apply(Name("f"), Number(n)) : n \in 0..MaxArgument}

\* the functions (p, q) -> ([p], [q]), p -> (), p -> (p, ()), (p, q) -> q
\* and () -> 1: their parameters and their bodies
Parameters ==
    << <<"p", "q">>, <<"p">>, <<"p">>, <<"p", "q">>, << >> >>
Bodies ==
    << Pair(ListOf(Name("p")), ListOf(Name("q"))), Void, Pair(Name("p"), Void),
       Name("q"), Number(1) >>
Function(k) == Def(NamesTree(Parameters[k]), Bodies[k])
Functions == 1..Len(Bodies)

\* await fn(1, ..., m), fn being the function the host holds as the value
\* of the last evaluation or call: it runs on the heap that evaluation left
HostCall(m) ==
    /\ last.op \in {"evaluate", "call"} /\ last.ok
    /\ last.val.js = "function" /\ last.val.fn = "closure"
    /\ \E r \in {Call(last.val, [i \in 1..m |-> Num(i)], last.post, << >>)} :
          /\ heap' = Retained(r.heap, Len(heap))
          /\ last' = [op |-> "call", prog |-> Apply(last.prog, ValuesTree(m)),
                      ctx |-> last.ctx, pre |-> last.post, post |-> r.heap,
                      ok |-> r.ok, val |-> r.v, err |-> r.err, log |-> r.log]
    /\ evals' = evals + 1

InitFunction == heap = createContext(SessionGlobals) /\ last = Idle /\ evals = 0
NextFunction ==
    \/ \E program \in FunctionDefinitions : evals < MaxEvals /\ Evaluate(program, S)
    \/ \E program \in FunctionCalls : evals < MaxEvals /\ Evaluate(program, S)
    \/ \E k \in Functions, m \in 0..MaxValues :
          evals < MaxEvals /\ Evaluate(Apply(Function(k), ValuesTree(m)), S)
    \/ \E k \in Functions : evals < MaxEvals /\ Evaluate(Function(k), S)
    \/ \E m \in 0..MaxValues : evals < MaxEvals /\ HostCall(m)
SpecFunction == InitFunction /\ [][NextFunction]_vars

\* the value bound to the name in the context of the last evaluation, before it
Before(name) == Get(last.pre, last.ctx, name)

\* C11 (as stated): a function stays callable after the evaluation that
\* defined it, and an assignment made to the scope of its definition after
\* the definition does not change what it computes: in
\* {f = x -> x + a, a = 2, r = f 1}, r is 1 + the a of the definition.
C11_Independent ==
    last.op = "evaluate" =>
        /\ last.prog = CallG /\ Type(Before("g")) = "FUNCTION" =>
              last.ok /\ last.val = Num(3)
        /\ last.prog = Within =>
              last.ok /\ ObjGet(last.val, "r") = Num(1 + Before("a").n)

\* C11 (amended): a function stays callable after the evaluation that
\* defined it, with the scope it captured: g 1 is 3 whatever is bound in the
\* context since; the captured scope is shared, not copied: an assignment
\* made to it after the definition is what later calls read, so r is 3 in
\* {f = x -> x + a, a = 2, r = f 1} and f 1 is 1 + the a of the call time.
C11_SharedScope ==
    last.op = "evaluate" =>
        /\ last.prog = CallG /\ Type(Before("g")) = "FUNCTION" =>
              last.ok /\ last.val = Num(3)
        /\ last.prog = Within => last.ok /\ ObjGet(last.val, "r") = Num(3)
        /\ last.prog = CallF /\ Before("f") = Closure(DefineF.Y.X, DefineF.Y.Y, S) =>
              last.ok /\ last.val = Num(1 + Before("a").n)

\* {f = x -> x + a, a = 2, r = f 1} has been evaluated where a was 1, and
\* r is 3
C11_Witness ==
    /\ last.op = "evaluate" /\ last.ok
    /\ last.prog = Within
    /\ Before("a") = Num(1)
    /\ ObjGet(last.val, "r") = Num(3)

\* the values 1..m as the items of a list or tuple, from the i-th on
From(i, m) == [k \in 1..(IF m >= i THEN m - i + 1 ELSE 0) |-> Num(i + k - 1)]

\* what the k-th function yields for the arguments 1..m
Yield(k, m) ==
    CASE k = 1 -> <<List(From(1, IF m >= 1 THEN 1 ELSE 0)), List(From(2, m))>>
      [] k = 2 -> << >>
      [] k = 3 -> From(1, m)
      [] k = 4 -> From(2, m)
      [] k = 5 -> <<Num(1)>>

\* the frame the last call created
Callee == last.post[Len(last.pre) + 1]

\* C12: applying params -> body to the arguments 1..m creates one new child
\* scope of the scope of the definition, leaves the existing frames as they
\* were, binds the parameters by the labelling rule, and returns the result
\* of the body normalized (Nothing for no element, the element for one),
\* in an application `f args` and in a call of the function by the host.
C12_Application ==
    \A k \in Functions, m \in 0..MaxValues :
        last.op \in {"evaluate", "call"} /\ last.prog = Apply(Function(k), ValuesTree(m)) =>
            /\ last.ok
            /\ SubSeq(last.post, 1, Len(last.pre)) = last.pre
            /\ Len(last.post) = Len(last.pre) + 1
            /\ Callee.proto = ProtoFrame(S)
            /\ Len(Callee.own) = Len(Parameters[k])
            /\ \A i \in 1..Len(Parameters[k]) :
                  /\ HasKey(Callee.own, Parameters[k][i])
                  /\ IF i > m THEN isNothing(ValueOf(Callee.own, Parameters[k][i]))
                     ELSE ValueOf(Callee.own, Parameters[k][i])
                             = Share(i, Len(Parameters[k]), m)
            /\ Observed(last.val) = Yield(k, m)
            /\ Len(Yield(k, m)) = 0 => Type(last.val) = "NOTHING"
            /\ Len(Yield(k, m)) = 1 => last.val = Yield(k, m)[1]

\* the host has called the function p -> (p, ()) on 1 and has got a tuple of
\* one element, not 1
C12_Witness ==
    /\ last.op = "call" /\ last.ok
    /\ last.prog = Apply(Function(3), ValuesTree(1))
    /\ last.val.js = "Tuple"
    /\ Observed(last.val) = <<Num(1)>>

RECURSIVE Factorial(_)
Factorial(n) == IF n <= 1 THEN 1 ELSE n * Factorial(n - 1)

\* C13: once f = n -> n<=1 ? 1 ; n * f(n-1) has been evaluated in a context,
\* f n evaluated in that context returns n factorial, for every n >= 0.
C13_Factorial ==
    \A n \in 0..MaxArgument :
        /\ last.op = "evaluate" /\ last.prog = Apply(Name("f"), Number(n))
        /\ Before("f") = Closure(Name("n"), FactorialBody, S)
        => last.ok /\ last.val = Num(Factorial(n))

\* f 5 has been evaluated after the definition of f and is 120
C13_Witness ==
    /\ last.op = "evaluate" /\ last.ok
    /\ last.prog = Apply(Name("f"), Number(5))
    /\ Before("f") = Closure(Name("n"), FactorialBody, S)
    /\ last.val = Num(120)

(***************************************************************************)
(* Arithmetic: one evaluation of X op Y for op among + - * / % ^, X and Y  *)
(* tuples of up to MaxNames numbers and strings or one value of any kind.  *)
(***************************************************************************)
LiftAtoms == {Number(1), Number(2), String("a")}
TuplesOf(atoms) ==
    {Tupled(items) : items \in UNION {[1..n -> atoms] : n \in 0..MaxNames}}
Singletons ==
    {Name("T"), Name("F"), Name("n"), Number(0), String(""), ListOf(Number(1)), ListOf(Void),
     NamespaceOf(Set(Name("k"), Number(1))), NamespaceOf(Void), Def(Name("x"), Name("x"))}
LeftArithmetic == TuplesOf(LiftAtoms) \cup Singletons
RightArithmetic == TuplesOf({Number(2), String("a")}) \cup Singletons
ArithmeticHandlers == {"$add", "$sub", "$mul", "$div", "$mod", "$pow"}

\* the namespace literals over the names a and b, bound to numbers
Bindings ==
    {<< >>}
    \cup {<<[k |-> k, v |-> Number(i)]>> : k \in {"a", "b"}, i \in 1..MaxNumber}
    \cup {<<[k |-> "a", v |-> Number(i)], [k |-> "b", v |-> Number(j)]>> :
              i \in 1..MaxNumber, j \in 1..MaxNumber}
Literal(bindings) ==
    NamespaceOf(Tupled([i \in 1..Len(bindings) |-> Set(Name(bindings[i].k), bindings[i].v)]))

\* the literal of the bindings of x and of y, those of y where both bind
Merged(x, y) ==
    Literal(SelectSeq(x, LAMBDA e : \A i \in 1..Len(y) : y[i].k # e.k) \o y)

\* X + Y alone, compared with the merged literal, applied to a name and
\* subcontexted to read a name
Uses(x, y) ==
    {Binary("$add", Literal(x), Literal(y)),
     Binary("$eq", Binary("$add", Literal(x), Literal(y)), Merged(x, y))}
    \cup {Apply(Binary("$add", Literal(x), Literal(y)), String(k)) : k \in {"a", "b"}}
    \cup {Dot(Binary("$add", Literal(x), Literal(y)), Name(k)) : k \in {"a", "b"}}

InitArithmetic == heap = createContext(Globals) /\ last = Idle /\ evals = 0
NextArithmetic ==
    \/ \E op \in ArithmeticHandlers, X \in LeftArithmetic, Y \in RightArithmetic :
          evals = 0 /\ Evaluate(Binary(op, X, Y), 2)
    \/ \E x \in Bindings, y \in Bindings :
          \E program \in Uses(x, y) : evals = 0 /\ Evaluate(program, 2)
SpecArithmetic == InitArithmetic /\ [][NextArithmetic]_vars

\* the i-th element of the items, Nothing beyond the last
Item(items, i) == IF i <= Len(items) THEN items[i] ELSE Null

\* op(X_i, Y_i) for the elements xs of X and ys of Y
Elementwise(op, xs, ys, i) == Scalar(op, Item(xs, i), Item(ys, i))

\* the values of op(X_i, Y_i) from the i-th pair to the n-th, in order,
\* Nothing left out
RECURSIVE Gather(_, _, _, _, _)
Gather(op, xs, ys, i, n) ==
    IF i > n THEN << >>
    ELSE Observed(Elementwise(op, xs, ys, i).v) \o Gather(op, xs, ys, i + 1, n)

Longer(xs, ys) == IF Len(xs) >= Len(ys) THEN Len(xs) ELSE Len(ys)

\* C14: X op Y for op among + - * / % ^ is the normalized tuple of
\* op(X_i, Y_i), i = 1..max(n, m), in order, Nothing standing for the missing
\* elements of the shorter operand; it raises iff some op(X_i, Y_i) is
\* undefined.
C14_Lifting ==
    last.op = "evaluate" /\ last.prog.h \in ArithmeticHandlers =>
        LET op == last.prog.h
            xs == Observed(Alone(last.prog.X).v)
            ys == Observed(Alone(last.prog.Y).v)
            n == Longer(xs, ys)
            results == Gather(op, xs, ys, 1, n)
        IN  /\ Alone(last.prog.X).ok /\ Alone(last.prog.Y).ok
            /\ IF \E i \in 1..n : ~Elementwise(op, xs, ys, i).ok
               THEN ~last.ok
               ELSE /\ last.ok
                    /\ Observed(last.val) = results
                    /\ Len(results) = 0 => Type(last.val) = "NOTHING"
                    /\ Len(results) = 1 => last.val = results[1]
                    /\ Len(results) >= 2 => last.val.js = "Tuple"

\* (1, 2, 2) - 2 has been evaluated and is (-1, 2, 2)
C14_Witness ==
    /\ last.op = "evaluate" /\ last.ok
    /\ last.prog = Binary("$sub", Tupled(<<Number(1), Number(2), Number(2)>>), Number(2))
    /\ Observed(last.val) = <<Num(-1), Num(2), Num(2)>>

(***************************************************************************)
(* Comparison: one evaluation of the six comparisons of X and Y, X and Y   *)
(* tuples of up to MaxNames values or one value of any kind.               *)
(***************************************************************************)
Compared ==
    {Name("F"), Name("n"), String(""), String("b"), ListOf(Void), ListOf(Number(1)),
     ListOf(Pair(Number(1), Number(2))), NamespaceOf(Set(Name("k"), Number(1))),
     Def(Name("x"), Name("x"))}
LeftCompared == TuplesOf({Number(1), Number(2), String("a"), Name("T")}) \cup Compared
RightCompared == TuplesOf({Number(2), String("a")}) \cup Compared

\* X < Y, X <= Y, X > Y, X >= Y, X == Y, X != Y
Comparisons(X, Y) ==
    Tupled(<<Binary("$lt", X, Y), Binary("$le", X, Y), Binary("$gt", X, Y),
             Binary("$ge", X, Y), Binary("$eq", X, Y), Binary("$ne", X, Y)>>)

\* the namespaces {}, {a = v}, {b = w}, {a = v, b = w}, v and w a number or ()
Bound == {Void} \cup {Number(i) : i \in 1..MaxNumber}
Namespaces ==
    {NamespaceOf(Void)}
    \cup {NamespaceOf(Set(Name(k), v)) : k \in {"a", "b"}, v \in Bound}
    \cup {NamespaceOf(Pair(Set(Name("a"), v), Set(Name("b"), w))) : v \in Bound, w \in Bound}

InitCompare == heap = createContext(Globals) /\ last = Idle /\ evals = 0
NextCompare ==
    \/ \E X \in LeftCompared, Y \in RightCompared :
          evals = 0 /\ Evaluate(Comparisons(X, Y), 2)
    \/ \E X \in Namespaces, Y \in Namespaces :
          evals = 0 /\ Evaluate(Pair(Binary("$eq", X, Y), Binary("$ne", X, Y)), 2)
SpecCompare == InitCompare /\ [][NextCompare]_vars

\* C15: where compare(x, y) is defined, compare(y, x) is its opposite,
\* x < y iff it is negative, x > y iff it is positive, x <= y iff not x > y,
\* x >= y iff not x < y, x == y iff it is 0; Nothing is less than anything
\* else; tuples compare lexicographically, Nothing filling the shorter one.
C15_Consistency ==
    last.op = "evaluate" /\ last.prog = Comparisons(last.prog.Y.X, last.prog.Y.Y) =>
        LET x == Alone(last.prog.Y.X).v
            y == Alone(last.prog.Y.Y).v
            c == lexCompare(x, y)
        IN  c.ok =>
                /\ lexCompare(y, x).ok /\ lexCompare(y, x).v = -c.v
                /\ isNothing(x) /\ ~isNothing(y) => c.v < 0
                /\ last.ok
                /\ Observed(last.val) =
                      <<Bool(c.v < 0), Bool(~(c.v > 0)), Bool(c.v > 0), Bool(~(c.v < 0)),
                        Bool(c.v = 0), Bool(c.v # 0)>>

\* (2, 'a') and (2, 'a', 2) have been compared: the shorter one is less, not
\* greater, not equal
C15_Witness ==
    /\ last.op = "evaluate" /\ last.ok
    /\ last.prog = Comparisons(Pair(Number(2), String("a")),
                               Tupled(<<Number(2), String("a"), Number(2)>>))
    /\ Observed(last.val) = <<Bool(TRUE), Bool(TRUE), Bool(FALSE), Bool(FALSE),
                              Bool(FALSE), Bool(TRUE)>>

\* the identifiers a namespace owns
Owned(x) == {k \in {x.own[i].k : i \in 1..Len(x.own)} : isValidName(k)}

\* x and y own the same identifiers, each bound to == values in both
SameBindings(x, y) ==
    /\ Owned(x) = Owned(y)
    /\ \A k \in Owned(x) :
          isLexEqual(TupleFrom(<<ValueOf(x.own, k)>>), TupleFrom(<<ValueOf(y.own, k)>>))

\* C16: X == Y for two namespaces is true iff they own the same identifiers,
\* each bound to == values in both, also where entries are bound to Nothing;
\* X != Y is its negation.
C16_NamespaceEquality ==
    /\ last.op = "evaluate" /\ last.prog.h = "$pair" /\ last.prog.X.h = "$eq"
    /\ last.prog.X.X \in Namespaces /\ last.prog.X.Y \in Namespaces
    => /\ last.ok
       /\ Observed(last.val) =
             <<Bool(SameBindings(Alone(last.prog.X.X).v, Alone(last.prog.X.Y).v)),
               Bool(~SameBindings(Alone(last.prog.X.X).v, Alone(last.prog.X.Y).v))>>

\* {a = ()} == {b = ()} has been evaluated and is true
C16_Witness ==
    /\ last.op = "evaluate" /\ last.ok
    /\ last.prog = Pair(Binary("$eq", NamespaceOf(Set(Name("a"), Void)),
                                      NamespaceOf(Set(Name("b"), Void))),
                        Binary("$ne", NamespaceOf(Set(Name("a"), Void)),
                                      NamespaceOf(Set(Name("b"), Void))))
    /\ Observed(last.val) = <<Bool(TRUE), Bool(FALSE)>>

\* C17: with N for Nothing and x of any kind, none of these raises and
\* N+x = x+N = x, N-x = N, x-N = x, N*x = x*N = N, N/x = N, N%x = x, N^x = N.
C17_NothingOperand ==
    last.op = "evaluate" /\ last.prog.h \in ArithmeticHandlers =>
        LET op == last.prog.h
            x == Alone(last.prog.X).v
            y == Alone(last.prog.Y).v
        IN  /\ isNothing(x) =>
                  /\ last.ok
                  /\ Observed(last.val) =
                        IF op \in {"$add", "$mod"} THEN Observed(y) ELSE << >>
            /\ isNothing(y) /\ op \in {"$add", "$sub"} =>
                  last.ok /\ Observed(last.val) = Observed(x)
            /\ isNothing(y) /\ op = "$mul" => last.ok /\ Observed(last.val) = << >>

\* () % [1] has been evaluated and is [1]
C17_Witness ==
    /\ last.op = "evaluate" /\ last.ok
    /\ last.prog = Binary("$mod", Void, ListOf(Number(1)))
    /\ last.val = List(<<Num(1)>>)

\* the combinations of kinds the operator table defines
Table(op, kx, ky) ==
    \/ kx = "NOTHING"
    \/ ky = "NOTHING" /\ op \in {"$add", "$sub", "$mul"}
    \/ kx = "NUMBER" /\ ky = "NUMBER"
    \/ op \in {"$add", "$mul"} /\ kx = "BOOLEAN" /\ ky = "BOOLEAN"
    \/ op = "$add" /\ kx = ky /\ kx \in {"STRING", "LIST", "NAMESPACE"}
    \/ op = "$mul" /\ <<kx, ky>> \in {<<"NUMBER", "STRING">>, <<"STRING", "NUMBER">>,
                                      <<"NUMBER", "LIST">>, <<"LIST", "NUMBER">>}

\* the name of a kind and of an operation in the message of an error
KindName(k) ==
    CASE k = "NOTHING" -> "Nothing" [] k = "BOOLEAN" -> "Boolean"
      [] k = "NUMBER" -> "Number" [] k = "STRING" -> "String" [] k = "LIST" -> "List"
      [] k = "NAMESPACE" -> "Namespace" [] k = "FUNCTION" -> "Function"
OperationName(op) ==
    CASE op = "$add" -> "Sum" [] op = "$sub" -> "Subtraction" [] op = "$mul" -> "Product"
      [] op = "$div" -> "Division" [] op = "$mod" -> "Modulo"
      [] op = "$pow" -> "Exponentiation"

\* the kind of the one value of an operand, Nothing if it has none
KindOf(v) == Type(Item(Observed(v), 1))

\* C18: X op Y, for one-valued operands of a pair of kinds the operator table
\* does not define, raises "<Op> operation not defined between <LeftKind>
\* and <RightKind>", the kinds written Boolean, Number, String, List,
\* Namespace, Function, Nothing.
C18_Messages ==
    last.op = "evaluate" /\ last.prog.h \in ArithmeticHandlers =>
        LET op == last.prog.h
            x == Alone(last.prog.X).v
            y == Alone(last.prog.Y).v
        IN  /\ Len(Observed(x)) <= 1 /\ Len(Observed(y)) <= 1
            /\ ~Table(op, KindOf(x), KindOf(y))
            => /\ ~last.ok
               /\ last.err = OperationName(op) \o " operation not defined between "
                                \o KindName(KindOf(x)) \o " and " \o KindName(KindOf(y))

\* T + 2 has been evaluated and has raised a message that names the kinds
\* BOOLEAN and NUMBER
C18_Witness ==
    /\ last.op = "evaluate" /\ ~last.ok
    /\ last.prog = Binary("$add", Name("T"), Number(2))
    /\ last.err = "Sum operation not defined between BOOLEAN and NUMBER"

\* the value the sum of the namespaces x and y binds to k: that of y, else
\* that of x, else Nothing
Summed(x, y, k) ==
    IF HasKey(y.own, k) THEN ValueOf(y.own, k)
    ELSE IF HasKey(x.own, k) THEN ValueOf(x.own, k) ELSE Null

\* C19: X + Y for two namespaces owns every identifier X or Y owns, with the
\* value of Y where both own it: it is == to the merged literal, applied to
\* the name of an identifier it gives that value, and a name read in its
\* subcontext is that value.
C19_Merge ==
    \A x \in Bindings, y \in Bindings :
        LET xv == Alone(Literal(x)).v
            yv == Alone(Literal(y)).v
            sum == Binary("$add", Literal(x), Literal(y))
        IN  last.op = "evaluate" /\ last.prog \in Uses(x, y) =>
                /\ last.ok
                /\ last.prog = sum =>
                      /\ Owned(last.val) = Owned(xv) \cup Owned(yv)
                      /\ \A k \in Owned(last.val) :
                            ValueOf(last.val.own, k) = Summed(xv, yv, k)
                /\ last.prog = Binary("$eq", sum, Merged(x, y)) => last.val = Bool(TRUE)
                /\ \A k \in {"a", "b"} :
                      /\ last.prog = Apply(sum, String(k)) =>
                            Observed(last.val) = Observed(Summed(xv, yv, k))
                      /\ last.prog = Dot(sum, Name(k)) /\ k \in Owned(xv) \cup Owned(yv) =>
                            last.val = Summed(xv, yv, k)

\* ({a = 1} + {b = 2}) 'a' has been evaluated and is Nothing
C19_Witness ==
    /\ last.op = "evaluate" /\ last.ok
    /\ last.prog = Apply(Binary("$add", Literal(<<[k |-> "a", v |-> Number(1)]>>),
                                        Literal(<<[k |-> "b", v |-> Number(2)]>>)),
                         String("a"))
    /\ Type(last.val) = "NOTHING"

(***************************************************************************)
(* Indexing by application: X Y for a string or a list X.                  *)
(***************************************************************************)
MaxIndex == 4

\* the strings and lists that are indexed
Indexed ==
    {String("abc"), String("ab"), String(""),
     ListOf(Tupled(<<String("a"), Number(1), String("c")>>)),
     ListOf(Number(1)), ListOf(Void)}

\* the indexes: integer and decimal literals on both sides of the range,
\* computed numbers, and values that are no number
Indexes ==
    {Number(i) : i \in -MaxIndex..MaxIndex}
    \cup {Decimal(2 * i + 1, 2) : i \in -MaxIndex..(MaxIndex - 1)}
    \cup {Binary("$sub", Number(2), Number(1)), Pair(Number(1), Void)}
    \cup {String("1"), Pair(Number(1), Number(2)), Void, Name("T"), ListOf(Number(1))}

InitIndex == heap = createContext(Globals) /\ last = Idle /\ evals = 0
NextIndex ==
    \/ \E X \in Indexed, Y \in Indexes : evals = 0 /\ Evaluate(Apply(X, Y), 2)
    \/ \E X \in Indexed, Y \in Indexes :
          evals = 0 /\ Evaluate(Pair(Set(Name("i"), Y), Apply(X, Name("i"))), 2)
SpecIndex == InitIndex /\ [][NextIndex]_vars

\* the items of a string (its characters) or of a list
ItemsOf(x) ==
    IF x.js = "string" THEN [i \in 1..Len(x.s) |-> Str(CharAt(x.s, i))] ELSE x.elems

\* the number y as a fraction with a positive denominator
Numerator(y) == IF IsInt(y) THEN y.n ELSE IF y.den < 0 THEN -y.num ELSE y.num
Denominator(y) == IF IsInt(y) THEN 1 ELSE Abs(y.den)

\* what indexing x by the values ys is to give
Indexing(x, ys) ==
    LET items == ItemsOf(x)
        L == Len(items)
        none == IF x.js = "string" THEN <<Str("")>> ELSE << >>
    IN  IF Len(ys) # 1 \/ Type(ys[1]) # "NUMBER" THEN none
        ELSE LET num == Numerator(ys[1])
                 den == Denominator(ys[1])
             IN  IF 0 <= num /\ num < L * den
                 THEN Observed(items[(num \div den) + 1])
                 ELSE IF -(L * den) <= num /\ num < 0
                 THEN Observed(items[((L * den + num) \div den) + 1])
                 ELSE none

\* C20: for a string X of length L and a number Y, X Y is the character at
\* index floor(Y) when 0 <= Y < L and at floor(L + Y) when -L <= Y < 0, and
\* the empty string for any other Y, a Y that is no number included; for a
\* list X the same with Nothing in place of the empty string.
C20_Indexing ==
    last.op = "evaluate" =>
        LET direct == last.prog.h = "$apply"
            \* X Y, or i = Y, X i
            xs == Observed(Alone(IF direct THEN last.prog.X ELSE last.prog.Y.X).v)
            ys == Observed(Alone(IF direct THEN last.prog.Y ELSE last.prog.X.Y).v)
        IN  Len(xs) = 1 /\ Type(xs[1]) \in {"STRING", "LIST"} =>
                last.ok /\ Observed(last.val) = Indexing(xs[1], ys)

\* 'abc' 4 has been evaluated and is Nothing
C20_Witness ==
    /\ last.op = "evaluate" /\ last.ok
    /\ last.prog = Apply(String("abc"), Number(4))
    /\ Observed(last.val) = << >>

(***************************************************************************)
(* Application of a namespace: X Y for a namespace X.                      *)
(***************************************************************************)
\* host namespaces: a plain one, one that owns a callable __apply__ and an
\* instance whose prototype carries __apply__
PlainNamespace == Obj(<<Entry("a", Num(1)), Entry("$a", Num(9))>>, << >>)
CallableNamespace == Obj(<<Entry("a", Num(1)), Entry("__apply__", HostFn("h1"))>>, << >>)
InstanceNamespace == Obj(<<Entry("a", Num(1))>>, <<Entry("__apply__", HostFn("h1"))>>)

ApplyGlobals ==
    Globals \o << Entry("plain", PlainNamespace), Entry("callable", CallableNamespace),
                  Entry("instance", InstanceNamespace) >>

\* the namespaces that are applied
Applied ==
    {Name("plain"), Name("callable"), Name("instance"), NamespaceOf(Void),
     NamespaceOf(Pair(Set(Name("a"), Number(1)), Set(Name("b"), Number(2)))),
     NamespaceOf(Set(Name("__apply__"), Def(Name("s"), ListOf(Name("s"))))),
     NamespaceOf(Pair(Set(Name("__apply__"), Number(1)), Set(Name("a"), Number(2)))),
     NamespaceOf(Set(Name("a"), Void))}

\* what they are applied to
Arguments ==
    {String(s) : s \in {"a", "b", "d", "$a", "__apply__", "hasOwnProperty"}}
    \cup {Number(1), Void, Name("T"), Pair(String("a"), String("b")),
          ListOf(String("a")), Binary("$add", String("a"), String(""))}

InitApply == heap = createContext(ApplyGlobals) /\ last = Idle /\ evals = 0
NextApply ==
    \/ \E X \in Applied, Y \in Arguments : evals = 0 /\ Evaluate(Apply(X, Y), 2)
    \/ \E X \in Applied, Y \in Arguments :
          evals = 0 /\ Evaluate(Apply(Binary("$add", NamespaceOf(Void), X), Y), 2)
    \/ \E X \in Applied, Y \in Arguments :
          evals = 0 /\ Evaluate(Apply(Binary("$add", X, NamespaceOf(Void)), Y), 2)
SpecApply == InitApply /\ [][NextApply]_vars

\* what applying the namespace value x to the values ys is to give, the
\* operands evaluated to the outcome r
Application(x, ys, r) ==
    IF HasKey(x.own, "__apply__") /\ ValueOf(x.own, "__apply__").js = "function"
    THEN With(Call(ValueOf(x.own, "__apply__"), ys, r.heap, r.log), LAMBDA c :
             [ok |-> c.ok, val |-> IF c.ok THEN Observed(c.v) ELSE << >>])
    ELSE [ok |-> TRUE,
          val |-> IF /\ Len(ys) = 1 /\ Type(ys[1]) = "STRING"
                     /\ isValidName(ys[1].s) /\ HasKey(x.own, ys[1].s)
                  THEN Observed(ValueOf(x.own, ys[1].s))
                  ELSE << >>]

\* C21: a namespace X applied to Y delegates to __apply__ exactly when X owns
\* an entry __apply__ that is a function; otherwise the result is the value X
\* owns under Y when Y is a string that is a legal identifier owned by X, and
\* Nothing in every other case.
C21_NamespaceApply ==
    last.op = "evaluate" /\ last.prog.h = "$apply" =>
        LET rx == Eval(last.prog.X, last.ctx, last.pre, << >>)
            ry == Eval(last.prog.Y, last.ctx, rx.heap, rx.log)
            xs == Observed(rx.v)
        IN  rx.ok /\ ry.ok /\ Len(xs) = 1 /\ Type(xs[1]) = "NAMESPACE" =>
                LET expected == Application(xs[1], Observed(ry.v), ry)
                IN  /\ last.ok = expected.ok
                    /\ last.ok => Observed(last.val) = expected.val

\* instance 'a', the instance owning a = 1 and inheriting a callable
\* __apply__, has been evaluated and is what the callable returns instead of 1
C21_Witness ==
    /\ last.op = "evaluate" /\ last.ok
    /\ last.prog = Apply(Name("instance"), String("a"))
    /\ last.log = <<Called("h1"), Returned("h1")>>

(***************************************************************************)
(* Subcontexting: X . Y                                                    *)
(***************************************************************************)
\* the left operands: namespaces of the program and of the host, tuples of
\* them, Nothing, and values of the other kinds
Namespaced ==
    {Name("ns"), Name("plain"), Name("instance"), NamespaceOf(Void), Void, Name("n"),
     NamespaceOf(Pair(Set(Name("a"), Number(1)), Set(Name("q"), Void))),
     Pair(Name("ns"), Name("plain")),
     Tupled(<<NamespaceOf(Set(Name("b"), Number(2))), Name("ns"), NamespaceOf(Void)>>),
     Pair(Name("ns"), Number(1)), Number(10), ListOf(Void), String("a"),
     Def(Name("x"), Name("x")), Name("T")}

\* the right operands: names X owns, names of the enclosing scopes, names
\* bound nowhere, and expressions over them
Subexpressions ==
    {Name(k) : k \in {"a", "b", "p", "q", "zz", "bool", "__proto__"}}
    \cup {ListOf(Tupled(<<Name("a"), Name("b"), Name("p")>>)),
          Binary("$add", Binary("$mul", Name("p"), Name("p")), Name("a")),
          Pair(Name("zz"), Name("a"))}

\* ns = {p = 7, a = 1}
DefineNs == Set(Name("ns"), NamespaceOf(Pair(Set(Name("p"), Number(7)),
                                             Set(Name("a"), Number(1)))))

\* (p -> X . Y) 3
InFunction(X, Y) == Apply(Def(Name("p"), Dot(X, Y)), Number(3))

InitDot == heap = createContext(ApplyGlobals) /\ last = Idle /\ evals = 0
NextDot ==
    \/ evals = 0 /\ Evaluate(DefineNs, 2)
    \/ \E X \in Namespaced, Y \in Subexpressions :
          evals <= 1 /\ last.prog.h \in {"$nothing", "$set"} /\ Evaluate(Dot(X, Y), 2)
    \/ \E X \in Namespaced, Y \in Subexpressions :
          evals = 1 /\ last.prog.h = "$set" /\ Evaluate(InFunction(X, Y), 2)
SpecDot == InitDot /\ [][NextDot]_vars

\* the innermost binding of the name in the scopes that enclose the last
\* X . Y, Nothing if there is none
Enclosing(name) ==
    IF last.prog.h = "$apply" /\ name = "p" THEN Num(3)
    ELSE With(last.pre[last.ctx].own \o Inherited(last.pre, last.pre[last.ctx].proto),
              LAMBDA entries : IF HasKey(entries, name) THEN ValueOf(entries, name)
                               ELSE Null)

\* Y with every identifier replaced by what it is to resolve to under x
RECURSIVE Resolved(_, _)
Resolved(Y, x) ==
    CASE Y.h = "$name" ->
             Constant(IF HasKey(x.own, Y.name) THEN ValueOf(x.own, Y.name)
                      ELSE Enclosing(Y.name))
      [] Y.h = "$list" -> ListOf(Resolved(Y.X, x))
      [] Y.h \in {"$pair", "$add", "$mul"} -> Binary(Y.h, Resolved(Y.X, x), Resolved(Y.Y, x))
      [] OTHER -> Y

\* the results of Y under each of the namespaces, in order
RECURSIVE PerNamespace(_, _)
PerNamespace(Y, xs) ==
    IF xs = << >> THEN << >>
    ELSE Observed(Eval(Resolved(Y, Head(xs)), last.ctx, last.pre, << >>).v)
             \o PerNamespace(Y, Tail(xs))

\* the operands of the last X . Y
Subcontexted == IF last.prog.h = "$dot" THEN last.prog ELSE last.prog.X.Y

\* C22: X . Y with X a namespace evaluates Y with every identifier resolved
\* to X's entry when X owns it, otherwise to the innermost binding of the
\* enclosing scopes (function parameters and globals included), otherwise to
\* Nothing; a tuple of namespaces gives the tuple of the results in order, an
\* empty tuple Nothing, and an item that is no namespace raises the
\* namespace-expected error.
C22_Subcontext ==
    last.op = "evaluate" /\ last.prog.h \in {"$dot", "$apply"} =>
        LET xs == Observed(Alone(Subcontexted.X).v)
        IN  IF \A i \in 1..Len(xs) : Type(xs[i]) = "NAMESPACE"
            THEN last.ok /\ Observed(last.val) = PerNamespace(Subcontexted.Y, xs)
            ELSE ~last.ok /\ last.err = "Namespace expected on the left size of the '.' operator"

\* plain.__proto__ has been evaluated and is a namespace, not Nothing
C22_Witness ==
    /\ last.op = "evaluate" /\ last.ok
    /\ last.prog = Dot(Name("plain"), Name("__proto__"))
    /\ Type(last.val) = "NAMESPACE"

(***************************************************************************)
(* The parser: precedence climbing over the table of binary operations.    *)
(***************************************************************************)
\* the tokens of a source text
NameToken(name) == [t |-> "name", name |-> name]
NumberToken(n) == [t |-> "numb", num |-> n]
Op(op) == [t |-> "op", op |-> op]
Open(g) == [t |-> "open", g |-> g]
Close(g) == [t |-> "close", g |-> g]

\* a table in which ; separates statements, binding looser than = and ,
PrecedenceOfStatements(op) ==
    CASE op = "," -> 10
      [] op \in {"=", ":"} -> 11
      [] op = "->" -> 12
      [] op = ";" -> 9
      [] op = "?" -> 22
      [] op \in {"|", "&"} -> 23
      [] op \in {"==", "!=", "<", "<=", ">", ">="} -> 24
      [] op \in {"+", "-"} -> 25
      [] op \in {"*", "/", "%"} -> 26
      [] op = "^" -> 27
      [] OTHER -> 30

\* binaryOperations: the precedence of an operator, "" being juxtaposition
Precedence(op) ==
    CASE op = "," -> 10
      [] op \in {"=", ":"} -> 11
      [] op = "->" -> 12
      [] op = ";" -> 21
      [] op = "?" -> 22
      [] op \in {"|", "&"} -> 23
      [] op \in {"==", "!=", "<", "<=", ">", ">="} -> 24
      [] op \in {"+", "-"} -> 25
      [] op \in {"*", "/", "%"} -> 26
      [] op = "^" -> 27
      [] OTHER -> 30

\* binaryOperations: right: true
RightAssociative(op) == op = "->"

\* binaryOperations: the handler of an operator
HandlerOf(op) ==
    CASE op = "," -> "$pair" [] op = "=" -> "$set" [] op = ":" -> "$label"
      [] op = "->" -> "$def" [] op = ";" -> "$else" [] op = "?" -> "$if"
      [] op = "|" -> "$or" [] op = "&" -> "$and" [] op = "==" -> "$eq"
      [] op = "!=" -> "$ne" [] op = "<" -> "$lt" [] op = "<=" -> "$le"
      [] op = ">" -> "$gt" [] op = ">=" -> "$ge" [] op = "+" -> "$add"
      [] op = "-" -> "$sub" [] op = "*" -> "$mul" [] op = "/" -> "$div"
      [] op = "%" -> "$mod" [] op = "^" -> "$pow" [] op = "." -> "$dot"
      [] OTHER -> "$apply"

\* what a group of the kind g makes of the tree in it
Group(g, tree) ==
    CASE g = "[" -> ListOf(tree)
      [] g = "{" -> NamespaceOf(tree)
      [] OTHER -> tree

Parsed(tree, pos) == [tree |-> tree, pos |-> pos]

RECURSIVE ParseExpression(_, _, _)
RECURSIVE ParseOperations(_, _, _, _)

\* an operand at pos: a literal, a name or a group
ParseOperand(tokens, pos) ==
    IF pos > Len(tokens) \/ tokens[pos].t \in {"op", "close"} THEN Parsed(Void, pos)
    ELSE CASE tokens[pos].t = "name" -> Parsed(Name(tokens[pos].name), pos + 1)
           [] tokens[pos].t = "numb" -> Parsed(Number(tokens[pos].num), pos + 1)
           [] tokens[pos].t = "str" -> Parsed(String(tokens[pos].str), pos + 1)
           [] OTHER -> With(ParseExpression(tokens, pos + 1, 0), LAMBDA in :
                           Parsed(Group(tokens[pos].g, in.tree), in.pos + 1))

\* the operations that follow the operand `left`, as long as they bind at
\* least as tightly as minPrecedence
ParseOperations(tokens, left, pos, minPrecedence) ==
    IF pos > Len(tokens) \/ tokens[pos].t = "close" THEN Parsed(left, pos)
    ELSE With(IF tokens[pos].t = "op" THEN tokens[pos].op ELSE "", LAMBDA op :
         IF Precedence(op) < minPrecedence THEN Parsed(left, pos)
         ELSE With(ParseExpression(tokens, IF op = "" THEN pos ELSE pos + 1,
                                   IF RightAssociative(op) THEN Precedence(op)
                                   ELSE Precedence(op) + 1),
                   LAMBDA right :
                       ParseOperations(tokens, Binary(HandlerOf(op), left, right.tree),
                                       right.pos, minPrecedence)))

ParseExpression(tokens, pos, minPrecedence) ==
    With(ParseOperand(tokens, pos), LAMBDA operand :
        ParseOperations(tokens, operand.tree, operand.pos, minPrecedence))

\* parse(expression)
Parse(tokens) == ParseExpression(tokens, 1, 0).tree

MaxParameter == 7

\* ns = {p = i}; ns.(p*p) + a
Scenario(i) ==
    << NameToken("ns"), Op("="), Open("{"), NameToken("p"), Op("="), NumberToken(i),
       Close("}"), Op(";"), NameToken("ns"), Op("."), Open("("), NameToken("p"), Op("*"),
       NameToken("p"), Close(")"), Op("+"), NameToken("a") >>

\* (ns = {p = i}); ns.(p*p) + a
Grouped(i) ==
    <<Open("(")>> \o SubSeq(Scenario(i), 1, 7) \o <<Close(")")>>
        \o SubSeq(Scenario(i), 8, Len(Scenario(i)))

\* x o1 y o2 z for two operators and three operands
OperatorPairs == {",", "=", ";", "?", "|", "==", "+", "*", "."}
Sources ==
    {<<x, Op(o1), NumberToken(2), Op(o2), NameToken("b")>> :
         x \in {NameToken("a"), NameToken("zz")}, o1 \in OperatorPairs, o2 \in OperatorPairs}

\* f = n -> n <= 1 ? 1 ; n * f (n - 1)
FactorialSource ==
    << NameToken("f"), Op("="), NameToken("n"), Op("->"), NameToken("n"), Op("<="),
       NumberToken(1), Op("?"), NumberToken(1), Op(";"), NameToken("n"), Op("*"),
       NameToken("f"), Open("("), NameToken("n"), Op("-"), NumberToken(1), Close(")") >>

InitParse == heap = createContext(Globals) /\ last = Idle /\ evals = 0
NextParse ==
    \/ \E i \in 1..MaxParameter : evals = 0 /\ Evaluate(Parse(Scenario(i)), 2)
    \/ \E i \in 1..MaxParameter : evals = 0 /\ Evaluate(Parse(Grouped(i)), 2)
    \/ \E tokens \in Sources : evals = 0 /\ Evaluate(Parse(tokens), 2)
    \/ evals = 0 /\ Evaluate(Parse(FactorialSource), 2)
    \/ \E n \in 0..MaxNumber :
          /\ evals = 1 /\ last.prog = Parse(FactorialSource)
          /\ Evaluate(Parse(<<NameToken("f"), NumberToken(n)>>), 2)
SpecParse == InitParse /\ [][NextParse]_vars

\* C23 as stated: ns = {p=7}; ns.(p*p) + a, with a being 10, yields 59.
C23_Scenario ==
    last.op = "evaluate" /\ last.prog = Parse(Scenario(7)) => last.ok /\ last.val = Num(59)

\* C23, amended: = binds looser than ;, so ns = {p=i}; ns.(p*p) + a is
\* ns = ({p=i}; ns.(p*p) + a): it binds ns to {p=i} and yields Nothing; with
\* the assignment in parentheses the expression yields i*i + 10.
C23_Precedence ==
    last.op = "evaluate" =>
        \A i \in 1..MaxParameter :
            /\ last.prog = Parse(Scenario(i)) =>
                   /\ last.ok /\ Observed(last.val) = << >>
                   /\ Get(heap, 2, "ns") = Obj(<<Entry("p", Num(i))>>, << >>)
            /\ last.prog = Parse(Grouped(i)) =>
                   /\ last.ok /\ last.val = Num(i * i + 10)
                   /\ Get(heap, 2, "ns") = Obj(<<Entry("p", Num(i))>>, << >>)

\* ns = {p=7}; ns.(p*p) + a has been parsed as an assignment of an else-chain
\* and evaluated: ns is {p=7} and the value is Nothing
C23_Witness ==
    /\ last.op = "evaluate" /\ last.ok
    /\ last.prog = Parse(Scenario(7))
    /\ last.prog.h = "$set" /\ last.prog.Y.h = "$else"
    /\ last.val = Null
    /\ Get(heap, 2, "ns") = Obj(<<Entry("p", Num(7))>>, << >>)

(***************************************************************************)
(* The built-in names of a context made without globals                    *)
(***************************************************************************)
BuiltinNames == {"bool", "not", "str", "size", "enum", "range", "type", "map", "TRUE", "FALSE"}

\* the name read in the context itself and in child scopes that bind x only:
\* a subcontext, a function body, a namespace literal inside a function
ReadsOf(name) ==
    {Name(name)}
    \cup {Dot(NamespaceOf(Set(Name("x"), Number(i))), Name(name)) : i \in 1..MaxNumber}
    \cup {Apply(Def(Name("x"), Name(name)), Number(i)) : i \in 1..MaxNumber}
    \cup {Apply(Def(Name("x"), Dot(NamespaceOf(Set(Name("y"), Name("x"))), Name(name))),
                Number(i)) : i \in 1..MaxNumber}

\* assignments of the session: to another name and to built-in names
Rebinds == {Set(Name(n), Number(1)) : n \in {"x", "size", "bool"}}

InitBuiltins == heap = createContext(<< >>) /\ last = Idle /\ evals = 0
NextBuiltins ==
    \/ \E program \in Rebinds : evals = 0 /\ Evaluate(program, 2)
    \/ \E name \in BuiltinNames : \E program \in ReadsOf(name) :
          evals <= 1 /\ last.prog.h \in {"$nothing", "$set"} /\ Evaluate(program, 2)
SpecBuiltins == InitBuiltins /\ [][NextBuiltins]_vars

\* C24: in a context made without globals, bool, not, str, size, enum,
\* range, type and map are functions and TRUE and FALSE are booleans, in the
\* context and in every child scope that does not rebind the name.
C24_Builtins ==
    last.op = "evaluate" =>
        \A name \in BuiltinNames :
            last.prog \in ReadsOf(name) /\ ~HasKey(last.pre[2].own, name) =>
                /\ last.ok
                /\ Type(last.val) = IF name \in {"TRUE", "FALSE"} THEN "BOOLEAN"
                                    ELSE "FUNCTION"

\* (x -> size) 1 has been evaluated in a context made without globals, size
\* not rebound, and is Nothing
C24_Witness ==
    /\ last.op = "evaluate" /\ last.ok
    /\ last.prog = Apply(Def(Name("x"), Name("size")), Number(1))
    /\ ~HasKey(last.pre[2].own, "size")
    /\ Type(last.val) = "NOTHING"

(***************************************************************************)
(* Errors: propagation without rollback                                    *)
(***************************************************************************)
\* what completes before the failure: bindings and calls of host callables
Completing ==
    {Set(Name("x"), Number(1)), Apply(Name("h1"), Number(1)),
     Set(Pair(Name("x"), Name("y")), Pair(Number(1), Apply(Name("h1"), Number(2))))}

\* what raises: a host callable and operators
Raising ==
    {Apply(Name("fail"), Number(2)), Binary("$add", Name("T"), Number(1)),
     Apply(Number(1), Number(1)), Dot(Number(10), Name("a"))}

\* what would follow the failure
Following == {Set(Name("y"), Number(2)), Apply(Name("h2"), Number(3))}

\* the expressions around the three: those that evaluate them in the frame
\* of the evaluation, and those that evaluate them in a child frame
InFrame == {"tuple", "list", "sum", "or", "else", "set", "call"}
InChild == {"namespace", "function"}
Around(w, A, F, B) ==
    CASE w = "tuple" -> Tupled(<<A, F, B>>)
      [] w = "list" -> ListOf(Tupled(<<A, F, B>>))
      [] w = "sum" -> Binary("$add", Pair(A, F), B)
      [] w = "or" -> Binary("$or", Pair(A, F), B)
      [] w = "else" -> Binary("$else", Pair(A, F), B)
      [] w = "set" -> Set(Name("z"), Tupled(<<A, F, B>>))
      [] w = "call" -> Apply(Name("h3"), Tupled(<<A, F, B>>))
      [] w = "namespace" -> NamespaceOf(Tupled(<<A, F, B>>))
      [] OTHER -> Apply(Def(Name("p"), Tupled(<<A, F, B>>)), Number(1))

InitErrors == heap = createContext(Globals) /\ last = Idle /\ evals = 0
NextErrors ==
    \/ \E w \in InFrame, A \in Completing, F \in Raising, B \in Following :
          evals = 0 /\ Evaluate(Around(w, A, F, B), 2)
    \/ \E w \in InChild, A \in Completing, F \in Raising, B \in Following :
          evals = 0 /\ Evaluate(Around(w, A, F, B), 2)
SpecErrors == InitErrors /\ [][NextErrors]_vars

\* the heap in which the wrapper w evaluates what it holds, and the frame
Inner(w) ==
    IF w \in InFrame THEN last.pre
    ELSE Append(last.pre,
                Frame(IF w = "function" THEN <<Entry("p", Num(1))>> ELSE << >>,
                      ProtoFrame(last.ctx)))
Scope(w) == IF w \in InFrame THEN last.ctx ELSE Len(last.pre) + 1

\* C25: when a subexpression raises, the evaluation ends with that error;
\* the bindings and calls made by what completed before it remain, and
\* nothing is bound and no host callable is invoked after it.
C25_NoRollback ==
    last.op = "evaluate" =>
        \A w \in InFrame \cup InChild, A \in Completing, F \in Raising, B \in Following :
            last.prog = Around(w, A, F, B) =>
                LET a == Eval(A, Scope(w), Inner(w), << >>)
                    f == Eval(F, Scope(w), a.heap, a.log)
                IN  /\ a.ok /\ ~f.ok
                    /\ ~last.ok /\ last.err = f.err
                    /\ last.post = f.heap /\ last.log = f.log
                    /\ \A i \in 1..Len(last.log) :
                           last.log[i].id \notin {"h2", "h3"}
                           /\ (last.log[i].ev = "throw" => i = Len(last.log))
                    /\ ~HasKey(last.post[Scope(w)].own, "z")
                    /\ B = Set(Name("y"), Number(2)) =>
                           last.post[Scope(w)].own = a.heap[Scope(w)].own

\* (x, y) = (1, h1 2), fail 2, y = 2 has been evaluated: it ends with the
\* failure of the host callable, x is 1 and y is 2 in the frame, h1 was called
\* and nothing after the failure was
C25_Witness ==
    /\ last.op = "evaluate" /\ ~last.ok /\ last.err = "host failure"
    /\ last.prog = Around("tuple", Set(Pair(Name("x"), Name("y")),
                                 Pair(Number(1), Apply(Name("h1"), Number(2)))),
                          Apply(Name("fail"), Number(2)), Set(Name("y"), Number(2)))
    /\ last.post[2].own = <<Entry("x", Num(1)), Entry("y", Num(2))>>
    /\ last.log = <<Called("h1"), Returned("h1"), Called("fail"), Threw("fail")>>

(***************************************************************************)
(* The truth of the left operand of |, & and ? and the names bool and not  *)
(***************************************************************************)
\* assignments of a program to bool and not, and one to another name
Overrides ==
    {Set(Name(f), v) : f \in {"bool", "not"},
                       v \in {Number(1), Def(Name("x"), Name("T")), Def(Name("x"), Name("F"))}}
    \cup {Set(Name("x"), Number(1))}

\* globals in which the host binds bool to a callable of its own
OverridingGlobals == Globals \o <<Entry("bool", HostFn("h1"))>>

Judged == {"$or", "$and", "$if"}

InitJudge ==
    /\ heap \in {createContext(Globals), createContext(OverridingGlobals)}
    /\ last = Idle
    /\ evals = 0
NextJudge ==
    \/ \E program \in Overrides : evals = 0 /\ Evaluate(program, 2)
    \/ \E op \in Judged, X \in Conditions, Y \in {Number(5), Apply(Name("h2"), Number(5))} :
          evals <= 1 /\ last.prog.h \in {"$nothing", "$set"} /\ Evaluate(Binary(op, X, Y), 2)
SpecJudge == InitJudge /\ [][NextJudge]_vars

\* the outcome of the last program in a context in which nothing rebinds
\* bool or not
Unbiased == Run(last.prog, 2, createContext(Globals))

\* C26: the truth that |, & and ? judge their left operand by does not depend
\* on the bindings of the names bool and not: after a program or the host has
\* rebound them, X | Y, X & Y and X ? Y give what they gave before.
C26_Independent ==
    last.op = "evaluate" /\ last.prog.h \in Judged =>
        /\ last.ok = Unbiased.ok
        /\ last.ok => Observed(last.val) = Observed(Unbiased.v)
        /\ ~last.ok => last.err = Unbiased.err

\* 0 | 5 has been evaluated after bool = x -> T and is 0, not 5
C26_Witness ==
    /\ last.op = "evaluate" /\ last.ok
    /\ last.prog = Binary("$or", Number(0), Number(5))
    /\ Get(last.pre, 2, "bool") = Closure(Name("x"), Name("T"), 2)
    /\ last.val = Num(0)
    /\ Unbiased.v = Num(5)

(***************************************************************************)
(* Subcontexting a namespace of the host that holds illegal names          *)
(***************************************************************************)
\* the entries with legal names, shared by the namespaces below
LegalEntries == <<Entry("a", Num(1)), Entry("k", Num(2))>>

\* entries under names that are no identifiers: plain ones, and names of
\* handlers bound to a value and to a callable
Injections ==
    << <<Entry("1x", Num(8)), Entry("a-b", Num(6))>>,
       <<Entry("$a", Num(9))>>,
       <<Entry("$add", Num(9))>>,
       <<Entry("$name", HostFn("h1"))>>,
       <<Entry("$numb", HostFn("h2")), Entry("$pair", Num(0))>> >>

InjectedNames == <<"inj1", "inj2", "inj3", "inj4", "inj5">>

\* clean holds LegalEntries alone, the namespace i the injection i as well
InjectedGlobals ==
    Globals \o <<Entry("clean", Obj(LegalEntries, << >>))>>
        \o [i \in 1..Len(Injections) |->
                Entry(InjectedNames[i], Obj(Injections[i] \o LegalEntries, << >>))]

\* what is evaluated under the namespace
Inside ==
    {Name("a"), Name("k"), Name("b"), Name("x"), Number(1), Void, String("s"),
     Binary("$add", Number(1), Number(2)), Binary("$add", Name("a"), Name("b")),
     Binary("$mul", Name("k"), Name("x")), ListOf(Name("a")), Pair(Name("a"), Name("k")),
     Set(Name("z"), Name("a")), Apply(Name("h3"), Name("k"))}

InitInjected == heap = createContext(InjectedGlobals) /\ last = Idle /\ evals = 0
NextInjected ==
    \/ \E i \in 1..MaxNumber : evals = 0 /\ Evaluate(Set(Name("x"), Number(i)), 2)
    \/ \E i \in 1..Len(Injections), Y \in Inside :
          /\ evals <= 1 /\ last.prog.h \in {"$nothing", "$set"}
          /\ Evaluate(Dot(Name(InjectedNames[i]), Y), 2)
SpecInjected == InitInjected /\ [][NextInjected]_vars

\* the outcome of the last Y under the namespace without the injection
Clean == Alone(Dot(Name("clean"), last.prog.Y))

\* C27: in X . Y, the entries of X whose names are no legal identifiers have
\* no effect on the evaluation of Y: Y evaluates to what it evaluates to
\* under the namespace without those entries.
C27_IllegalEntries ==
    last.op = "evaluate" /\ last.prog.h = "$dot" =>
        /\ last.ok = Clean.ok
        /\ last.ok => Observed(last.val) = Observed(Clean.v)

\* inj3.(1 + 2), inj3 holding an entry $add bound to 9, has been evaluated
\* and raised, while under the clean namespace 1 + 2 is 3
C27_Witness ==
    /\ last.op = "evaluate" /\ ~last.ok
    /\ last.prog = Dot(Name("inj3"), Binary("$add", Number(1), Number(2)))
    /\ ObjGet(Get(last.pre, 2, "inj3"), "$add") = Num(9)
    /\ Clean.ok /\ Clean.v = Num(3)

(***************************************************************************)
(* Bindings made in the right operand of X . Y                             *)
(***************************************************************************)
\* the namespaces on the left: of the program, of the host, a literal, a
\* tuple of them
Lefts ==
    {Name("ns"), Name("plain"), NamespaceOf(Set(Name("a"), Number(1))),
     Pair(Name("ns"), Name("plain"))}

\* right operands that bind: a name X owns, a name of the enclosing scope, a
\* new name; the second half reads the name back inside Y
Binders ==
    {Binary(h, names, Number(i)) :
         h \in {"$set", "$label"},
         names \in {Name("a"), Name("b"), Name("zz"), Name("ns"), Pair(Name("a"), Name("b"))},
         i \in 2..(MaxNumber + 1)}
Binding == Binders \cup {Pair(Set(Name(k), Number(5)), Name(k)) : k \in {"a", "b", "zz"}}

\* reads after the bindings
Readers == {Name("ns"), Name("a"), Name("b"), Name("zz")}
               \cup {Dot(Name(x), Name(k)) : x \in {"ns", "plain"}, k \in {"a", "b", "zz"}}

InitFrames == heap = createContext(ApplyGlobals) /\ last = Idle /\ evals = 0
NextFrames ==
    \/ evals = 0 /\ Evaluate(DefineNs, 2)
    \/ \E X \in Lefts, Y \in Binding :
          evals = 1 /\ Evaluate(Dot(X, Y), 2)
    \/ \E X \in Lefts, Y \in Binding :
          evals = 1 /\ Evaluate(InFunction(X, Y), 2)
    \/ \E program \in Readers : evals = 2 /\ Evaluate(program, 2)
SpecFrames == InitFrames /\ [][NextFrames]_vars

\* the heap of the session once ns is defined
Defined == Retained(Run(DefineNs, 2, createContext(ApplyGlobals)).heap, 2)

\* the value of the program in the heap h of the session
ValueIn(program, h) == Observed(Run(program, 2, h).v)

\* C28: bindings made in the right operand of X . Y change neither the
\* namespace X nor any frame of the enclosing scopes: X and every name read
\* afterwards give what they gave before; inside Y the binding is visible.
C28_FrameEffect ==
    /\ last.op = "evaluate" /\ evals = 2 =>
           /\ last.ok
           /\ \A f \in 1..Len(last.pre) : last.post[f] = last.pre[f]
           /\ \A program \in Lefts \cup Readers :
                  ValueIn(program, heap) = ValueIn(program, last.pre)
           /\ \A k \in {"a", "b", "zz"} :
                  Subcontexted.Y = Pair(Set(Name(k), Number(5)), Name(k)) =>
                      \A i \in 1..Len(Observed(last.val)) : Observed(last.val)[i] = Num(5)
    /\ last.op = "evaluate" /\ evals = 3 =>
           last.ok /\ Observed(last.val) = ValueIn(last.prog, Defined)
    /\ last.op = "evaluate" /\ evals = 3 /\ last.prog = Dot(Name("ns"), Name("a")) =>
           last.val = Num(1)
    /\ last.op = "evaluate" /\ evals = 3 /\ last.prog = Name("ns") =>
           last.val = Obj(<<Entry("p", Num(7)), Entry("a", Num(1))>>, << >>)

\* ns.(a = 5, a), ns owning a = 1, has been evaluated to 5 and left the
\* frames as they were
C28_Witness ==
    /\ last.op = "evaluate" /\ last.ok /\ evals = 2
    /\ last.prog = Dot(Name("ns"), Pair(Set(Name("a"), Number(5)), Name("a")))
    /\ last.val = Num(5)
    /\ ValueIn(Dot(Name("ns"), Name("a")), heap) = <<Num(1)>>
    /\ ValueIn(Name("a"), heap) = <<Num(10)>>

(***************************************************************************)
(* Labelling whose right side fails                                        *)
(***************************************************************************)
\* the names on the left: new ones, one bound in the frame, globals
Labelled ==
    {Name("x"), Name("y"), Pair(Name("x"), Name("y")), Pair(Name("a"), Name("x")), Void}

\* right sides that raise, alone, after a value, after a call of the host
\* and after a binding of their own
FailingValues ==
    {F : F \in Raising}
    \cup {Pair(Number(1), F) : F \in Raising}
    \cup {Pair(Apply(Name("h1"), Number(1)), Apply(Name("fail"), Number(2))),
          Pair(Set(Name("y"), Number(1)), Apply(Name("fail"), Number(2))),
          Pair(Set(Name("w"), Number(1)), Binary("$add", Name("T"), Number(1)))}

InitAtomic == heap = createContext(Globals) /\ last = Idle /\ evals = 0
NextAtomic ==
    \/ \E i \in 1..MaxNumber : evals = 0 /\ Evaluate(Set(Name("x"), Number(i)), 2)
    \/ \E h \in {"$set", "$label"}, names \in Labelled, values \in FailingValues :
          /\ evals <= 1 /\ last.prog.h \in {"$nothing", "$set"} /\ last.ok
          /\ Evaluate(Binary(h, names, values), 2)
    \/ \E h \in {"$set", "$label"}, names \in Labelled, values \in FailingValues :
          /\ evals <= 1 /\ last.prog.h \in {"$nothing", "$set"} /\ last.ok
          /\ Evaluate(NamespaceOf(Binary(h, names, values)), 2)
SpecAtomic == InitAtomic /\ [][NextAtomic]_vars

\* the last labelling, and the frame it binds in
Labelling == IF last.prog.h = "$namespace" THEN last.prog.X ELSE last.prog
Current == IF last.prog.h = "$namespace" THEN Len(last.pre) + 1 ELSE last.ctx
Started ==
    IF last.prog.h = "$namespace"
    THEN Append(last.pre, Frame(<< >>, ProtoFrame(last.ctx)))
    ELSE last.pre

\* C29 as stated: if the right side of names : values or names = values
\* raises, the current frame is left exactly as it was before the labelling
\* started.
C29_Untouched ==
    last.op = "evaluate" /\ ~last.ok => last.post[Current] = Started[Current]

\* C29, amended: if the right side raises, the labelling ends with that
\* error and binds none of its names: the frames are left as the right side
\* left them when it raised, and exactly as they were before the labelling
\* where the right side makes no binding of its own.
C29_Atomic ==
    last.op = "evaluate" /\ ~last.ok =>
        LET values == Eval(Labelling.Y, Current, Started, << >>)
        IN  /\ ~values.ok /\ last.err = values.err /\ last.log = values.log
            /\ last.post = values.heap
            /\ (\A f \in 1..Len(Started) : f # Current => last.post[f] = Started[f])
            /\ Labelling.Y \in Raising \cup {Pair(Number(1), F) : F \in Raising}
                   => last.post = Started

\* (x, y) = (y = 1, fail 2) has been evaluated, x being 2 before: it raised,
\* x is still 2, and y is 1, bound by the right side before the failure
C29_Witness ==
    /\ last.op = "evaluate" /\ ~last.ok /\ last.err = "host failure"
    /\ last.prog = Set(Pair(Name("x"), Name("y")),
                       Pair(Set(Name("y"), Number(1)), Apply(Name("fail"), Number(2))))
    /\ last.pre[2].own = <<Entry("x", Num(2))>>
    /\ last.post[2].own = <<Entry("x", Num(2)), Entry("y", Num(1))>>

(***************************************************************************)
(* The parser of query parameters (lib/tools/parameters-parser) and        *)
(* BrowserEnvironment.parseURI                                             *)
(***************************************************************************)
\* s.split(separator), from the i-th character on, `part` being read
RECURSIVE SplitFrom(_, _, _, _)
SplitFrom(s, separator, i, part) ==
    IF i > Len(s) THEN <<part>>
    ELSE IF CharAt(s, i) = separator
         THEN <<part>> \o SplitFrom(s, separator, i + 1, "")
    ELSE SplitFrom(s, separator, i + 1, part \o CharAt(s, i))

split(s, separator) == SplitFrom(s, separator, 1, "")

\* s.trim()
RECURSIVE trim(_)
trim(s) ==
    IF s = "" THEN s
    ELSE IF CharAt(s, 1) = " " THEN trim(SubSeq(s, 2, Len(s)))
    ELSE IF CharAt(s, Len(s)) = " " THEN trim(SubSeq(s, 1, Len(s) - 1))
    ELSE s

IsDecimal(s) == Len(s) >= 1 /\ \A i \in 1..Len(s) : CharAt(s, i) \in Digits

RECURSIVE DecimalValue(_)
DecimalValue(s) ==
    IF s = "" THEN 0
    ELSE 10 * DecimalValue(SubSeq(s, 1, Len(s) - 1))
             + (CHOOSE d \in 0..9 : DigitChars[d + 1] = CharAt(s, Len(s)))

\* Number(value) for a string of digits, letters, blanks and signs, and for
\* undefined: blanks are trimmed, the empty string is 0, a decimal integer
\* with an optional sign is its number, anything else is NaN
ToNumber(value) ==
    IF value = Undefined THEN NaN
    ELSE With(trim(value.s), LAMBDA t :
             IF t = "" THEN Num(0)
             ELSE IF IsDecimal(t) THEN Num(DecimalValue(t))
             ELSE IF CharAt(t, 1) = "-" /\ IsDecimal(SubSeq(t, 2, Len(t)))
                  THEN Num(-DecimalValue(SubSeq(t, 2, Len(t))))
             ELSE IF CharAt(t, 1) = "+" /\ IsDecimal(SubSeq(t, 2, Len(t)))
                  THEN Num(DecimalValue(SubSeq(t, 2, Len(t))))
             ELSE NaN)

\* x === y: NaN is equal to nothing, itself included
StrictEquals(x, y) == x # NaN /\ y # NaN /\ x = y

\* let [name, value] = keyValuePair.split("=")
Destructured(parts, i) == IF i <= Len(parts) THEN Str(parts[i]) ELSE Undefined

\* the loop of module.exports over the key-value pairs; value.trim() of an
\* undefined value throws
RECURSIVE ParametersFrom(_, _)
ParametersFrom(keyValuePairs, args) ==
    IF keyValuePairs = << >> THEN Ok(Obj(args, << >>))
    ELSE With(split(Head(keyValuePairs), "="), LAMBDA parts :
         With(ToNumber(Destructured(parts, 2)), LAMBDA number :
             IF StrictEquals(number, NaN)
             THEN IF Destructured(parts, 2) = Undefined
                  THEN Raise("TypeError: Cannot read properties of undefined")
                  ELSE ParametersFrom(Tail(keyValuePairs),
                                      SetEntry(args, trim(parts[1]), Str(trim(parts[2]))))
             ELSE ParametersFrom(Tail(keyValuePairs),
                                 SetEntry(args, trim(parts[1]), number))))

\* module.exports of parameters-parser
parseParams(keyValuePairs) == ParametersFrom(keyValuePairs, << >>)

\* BrowserEnvironment.parseURI: [docPath, argns]
parseURI(uri) ==
    With(split(uri, "?"), LAMBDA parts :
        IF Len(parts) >= 2 /\ parts[2] # ""
        THEN Await(parseParams(split(parts[2], "&")), LAMBDA argns :
                 Ok(List(<<Str(parts[1]), argns.v>>)))
        ELSE Ok(List(<<Str(parts[1]), Obj(<< >>, << >>)>>)))

MaxArguments == 2

\* the arguments name=value of a uri
ArgumentNames == {"a", " b "}
ArgumentValues == {"1", "12", "abc", " 7 ", "x1", "-3", "0"}
QueryArguments == [name : ArgumentNames, value : ArgumentValues]
ArgumentLists == UNION {[1..n -> QueryArguments] : n \in 1..MaxArguments}

RECURSIVE Query(_)
Query(arguments) ==
    IF arguments = << >> THEN ""
    ELSE Head(arguments).name \o "=" \o Head(arguments).value
             \o (IF Len(arguments) > 1 THEN "&" ELSE "") \o Query(Tail(arguments))

\* uris without arguments of that form
OtherUris == {"doc", "doc?", "doc?a", "doc?a=", "doc?a=1=2", "doc?=1"}

\* the host calls parseURI(uri)
ParseURI(uri, arguments) ==
    /\ \E r \in {parseURI(uri)} :
          last' = [op |-> "parseURI", prog |-> [h |-> "uri", uri |-> uri, args |-> arguments],
                   ctx |-> 0, pre |-> heap, post |-> heap, ok |-> r.ok,
                   val |-> IF r.ok THEN r.v ELSE Undefined,
                   err |-> IF r.ok THEN "" ELSE r.err, log |-> << >>]
    /\ evals' = evals + 1
    /\ UNCHANGED heap

InitParameters == heap = createContext(Globals) /\ last = Idle /\ evals = 0
NextParameters ==
    \/ \E arguments \in ArgumentLists :
          evals = 0 /\ ParseURI("doc?" \o Query(arguments), arguments)
    \/ \E uri \in OtherUris : evals = 0 /\ ParseURI(uri, << >>)
SpecParameters == InitParameters /\ [][NextParameters]_vars

\* the argument that decides the entry of the i-th: the last of that name
Deciding(arguments, i) ==
    arguments[CHOOSE j \in 1..Len(arguments) :
                  /\ trim(arguments[j].name) = trim(arguments[i].name)
                  /\ \A k \in (j + 1)..Len(arguments) :
                         trim(arguments[k].name) # trim(arguments[i].name)]

\* whether the text denotes a number
Numeric(t) ==
    \/ IsDecimal(t)
    \/ Len(t) >= 2 /\ CharAt(t, 1) \in {"-", "+"} /\ IsDecimal(SubSeq(t, 2, Len(t)))

\* C30: every argument name=value gives an entry under the trimmed name: the
\* number the value denotes when it is numeric, the trimmed value as a string
\* otherwise; a value such as abc stays the string "abc" and never becomes
\* not-a-number.
C30_Parameters ==
    last.op = "parseURI" =>
        \A i \in 1..Len(last.prog.args) :
            LET argns == last.val.elems[2]
                name == trim(last.prog.args[i].name)
                text == trim(Deciding(last.prog.args, i).value)
            IN  /\ last.ok /\ HasKey(argns.own, name)
                /\ ValueOf(argns.own, name) # NaN
                /\ ValueOf(argns.own, name) =
                       IF Numeric(text) THEN ToNumber(Str(text)) ELSE Str(text)

\* doc?a=abc has been parsed and the entry a is not-a-number
C30_Witness ==
    /\ last.op = "parseURI" /\ last.ok
    /\ last.prog.uri = "doc?a=abc"
    /\ last.val = List(<<Str("doc"), Obj(<<Entry("a", NaN)>>, << >>)>>)

====
